---- MODULE Spec2Model ----
(***************************************************************************)
(* Verification model of the dmote keyboard firmware core:                 *)
(*   - the QuickDraw debouncer, edge-emitting (firmware/src/lib.rs) and    *)
(*     level-based with the logging scanner (fw/src/trigger.rs, scan.rs);  *)
(*   - the keyberon layout engine (firmware/keyberon/src/layout.rs).       *)
(* Booleans follow the source: TRUE = pressed (Down), FALSE = Up.          *)
(* Option<T> is modelled as a sequence: <<>> is None, <<x>> is Some(x).    *)
(***************************************************************************)
EXTENDS Integers, Naturals, Sequences, FiniteSets, TLC

VARIABLES
    \* ---- debouncer state --------------------------------------------
    cell,          \* firmware QuickDraw of one key (edge-emitting, u32 ticks)
    trig,          \* fw QuickDraw<T> of the same key (level-based, u8 ticks)
    now,           \* Keyboard.now / main's now: u32 tick counter
    timeout,       \* Keyboard.timeout = stable_time = T
    log,           \* fw Log ring: [head, body]
    \* ---- debouncer observation (inputs, outputs, history) -----------------
    sample,        \* sample fed to the last step
    emitted,       \* Option<bool> returned by the last firmware step
    logged,        \* Option<KeyState> handed to Log::log by the last scan
    prevCell,      \* firmware cell before the last step
    prevTrig,      \* fw cell before the last step
    ticks,         \* number of steps taken
    edges,         \* number of edges emitted so far
    transitions,   \* number of raw sample transitions so far
    run,           \* length of the trailing run of equal samples
    level,         \* value of the last emitted edge (Up before any edge)
    \* ---- layout engine -----------------------------------------------
    layers,        \* Layout.layers (static table)
    default_layer, \* Layout.default_layer
    states,        \* Layout.states: Vec<State, U64>
    fw_states,     \* fw single-layer Layout.states: Vec<State, 64>
    \* ---- layout observation -------------------------------------------
    lastEvent,     \* Option<Event>: the last event given to Layout::event
    prevStates,    \* Layout.states before the last event
    prevFwStates,  \* fw Layout.states before the last event
    prevDefault,   \* Layout.default_layer before the last event
    prevLayer,     \* current_layer() before the last event
    lookups,       \* table lookups made by press_as_action in the last press
    nevents,       \* number of events applied
    held,          \* coords whose last event was a Press (keys held down)
    dropped,       \* coords whose last Press found the state stack full
    scriptPos,     \* events of S3_Script the event history has followed
    \* ---- half-to-half serial link --------------------------------------
    tree,          \* source tree both halves are built from: "src" or "fw"
    wire,          \* Option<u8>: the octet in flight on the serial line
    kevent,        \* Option<KeyEvent>: the frame packed for the last octet
    evSent,        \* Option<Event>: the event the scanning half sent last
    evRecv,        \* Option<Event>: the event the USB half decoded from it
    nmsgs,         \* number of octets sent
    halted,        \* the USB half has panicked (panic_halt: it stops for good)
    lastRx,        \* result of rx.read() in the last run of uart_rx
    rxBefore,      \* layout state when the last run of uart_rx began
    \* ---- scan double buffer --------------------------------------------
    consumer,      \* "tick": the DMA1_CHANNEL5 handler (firmware/src/bin/
                   \* right.rs); "main": the polling loop of fw/src/main.rs
    isr,           \* DMA ISR flag groups 4 and 5: [htif, tcif] each
    dmaPos,        \* index in scanout of the next word the DMA writes
    scanout,       \* the two frames, as 2 * FRAME words; a word holds the
                   \* number of the scan that wrote it (0: never written)
    scans,         \* number of frames the DMA has completed
    pc,            \* position of the consumer: "idle", "clear", "read"
    half,          \* the half the consumer selected
    rd,            \* words of the selected half read in this run
    got,           \* the words read in this run
    \* ---- scan double buffer observation ---------------------------------
    frames,        \* frames processed so far: [half, words]
    entryHtif,     \* the half-complete bit as read when the half was selected
    cleared,       \* flags of the row transfer were clear after the last clear
    fresh,         \* a frame completed and no run of the consumer began since
    late,          \* a frame completed before the previous one was serviced
    \* ---- column strobe ---------------------------------------------------
    odr,           \* GPIOB output data register: the set of pins driven high
    strobePos,     \* index in SCANIN of the next word DMA1 channel 4 writes
    timPhase,      \* next event of TIM1: "cc4" (compare 4) or "upd" (update)
    sampled,       \* per word of scanout: the columns driven when it was read
    strobes,       \* number of strobe writes so far
    tim1,          \* TIM1 as dma_key_scan programs it: inputs, PSC, ARR, CCR4
    \* ---- handlers of the USB half ----------------------------------------
    active,        \* stack of the handlers entered and not yet left
    tickPc,        \* position of tick: "idle", "events", "set", "write"
    pending,       \* events of the frame not yet given to the layout
    rxByte,        \* Option: the octet uart_rx has read
    report,        \* the report assembled last
    devReport,     \* the report the HID device holds (Keyboard.report)
    epBusy,        \* the interrupt-in endpoint still holds a report
    sent,          \* the report the endpoint accepted last
    \* ---- handlers of the USB half: observation ---------------------------
    nframes,       \* frames the consumer has begun
    polls,         \* runs of the USB handlers
    retries,       \* writes of this frame the endpoint refused
    frameEvents,   \* events of the current frame applied so far
    mixed,         \* a remote event was applied inside a frame
    nested,        \* uart_rx and tick were entered one inside the other
    usbSnap,       \* layout and debouncer state when the last USB handler ran
    lastStep,      \* the handler that took the last step
    sentBefore,    \* `sent` when the current frame began
    writeCalls,    \* calls of usb_class.write in the current frame
    \* ---- boot singletons and log history --------------------------------
    TAKEN,         \* the flag of Log::get
    logRefs,       \* references to THELOG handed out
    getCalls,      \* calls of Log::get
    scanoutTaken,  \* the flag of the singleton! in dma_key_scan
    scanRefs,      \* references to the scan buffer handed out
    scanCalls,     \* calls of dma_key_scan
    bootPanic,     \* a singleton was asked for a second time: panic, halt
    written,       \* every record given to Log::log, in order
    reader,        \* state-slurp: position, head_val and the records copied
    \* ---- tick-driven layout (hold-tap, multiple actions, custom) ---------
    kb,            \* the layout: layers, default_layer, states, waiting, stacked
    custom,        \* the CustomEvent the last tick() returned
    did,           \* what the last call did: "event", "hold", "tap", "unstack", "idle"
    kticks,        \* calls of tick() so far
    given,         \* the events given to event() with the tick count then, in order
    applied,       \* the events taken from the queue and applied, in order
    appliedBefore, \* Len(applied) before the last call
    resolved,      \* Option: the last resolution of a hold-tap key
    kheld,         \* the keys that are down
    \* ---- one half's matrix: scan frame, debouncers, single-layer layout --
    triggers,      \* [[QuickDraw; R]; C] of firmware/src/lib.rs, by <<row, col>>
    fwtriggers,    \* [[QuickDraw<T>; R]; C] of fw/src/trigger.rs, by <<row, col>>
    scanhalf,      \* the words of the half the last frame read, one per column
    mevents,       \* the events keys_from_scan yielded in the last frame
    stepLog,       \* the steps keys_from_scan took in the last frame, in order
    mstates,       \* states of the single-layer layout fed with those events
    mreport,       \* keycodes the level-driven report of the last frame pressed
    prevTriggers,  \* triggers before the last frame
    mframes,       \* frames processed
    nowBefore,     \* the tick counter before the last frame
    \* ---- the two halves end to end ---------------------------------------
    produced,      \* events the scanning half's debouncer yielded, in order
    appliedLog,    \* events the USB half gave to its layout, in order
    txQueue,       \* events of the current frame the scanning half's loop has not reached
    tdr,           \* Option: transmit data register of the scanning half
    txsr,          \* Option: the octet being shifted out on the line
    rdr,           \* Option: receive data register of the USB half
    ore,           \* overrun flag of the receiver
    lhalted        \* the scanning half has panicked

qdVars == <<cell, trig, now, timeout, log, sample, emitted, logged, prevCell,
            prevTrig, ticks, edges, transitions, run, level>>
layVars == <<layers, default_layer, states, fw_states, lastEvent, prevStates,
             prevFwStates, prevDefault, prevLayer, lookups, nevents, held,
             dropped, scriptPos>>
linkVars == <<tree, wire, kevent, evSent, evRecv, nmsgs, halted, lastRx, rxBefore>>
dmaVars == <<consumer, isr, dmaPos, scanout, scans, pc, half, rd, got, frames,
             entryHtif, cleared, fresh, late>>
timVars == <<odr, strobePos, timPhase, sampled, strobes, tim1>>
usbVars == <<active, tickPc, pending, rxByte, report, devReport, epBusy, sent,
             nframes, polls, retries, frameEvents, mixed, nested, usbSnap,
             lastStep, sentBefore, writeCalls>>
bootVars == <<TAKEN, logRefs, getCalls, scanoutTaken, scanRefs, scanCalls,
              bootPanic>>
logVars == <<bootVars, written, reader>>
kbVars == <<kb, custom, did, kticks, given, applied, appliedBefore, resolved,
            kheld>>
mxVars == <<triggers, fwtriggers, scanhalf, mevents, stepLog, mstates, mreport,
            prevTriggers, mframes, nowBefore>>
pairVars == <<produced, appliedLog, txQueue, tdr, txsr, rdr, ore, lhalted>>
vars == <<qdVars, layVars, linkVars, dmaVars, timVars, usbVars, logVars, kbVars,
          mxVars, pairVars>>

\* ---------------------------------------------------------------------
\* Bounds of the model
\* ---------------------------------------------------------------------
MaxTicks == 8        \* steps of the debouncer explored
MaxTimeout == 3      \* stable windows T explored: 1..MaxTimeout
MaxEvents == 5       \* events applied to the layout
MaxMsgs == 1         \* octets sent over the serial link
MaxScans == 3        \* frames the row-sampling DMA completes
MaxFrames == 2       \* frames the consumer of the USB half begins
MaxPolls == 1        \* runs of the USB handlers
MaxRetries == 1      \* refused writes of one frame
MaxWrites == 1030    \* records given to the log ring (more than LOG_SIZE)
MaxKbTicks == 7      \* calls of tick() of the tick-driven layout
MaxKbEvents == 4     \* events given to the tick-driven layout
MaxLinkEvents == 3   \* events the scanning half sends end to end
MaxMxFrames == 3     \* scan frames of the matrix of one half

\* ---------------------------------------------------------------------
\* Integer widths
\* ---------------------------------------------------------------------
\* A u32 is kept as a pair <<hi, lo>> of 16-bit halves (value hi * 2^16 + lo)
\* so that its arithmetic wraps at exactly 2^32; a u8 is a number below 2^8.
HALF == 65536
U8 == 256

None == <<>>
Some(x) == <<x>>

u32_of(n) == <<n \div HALF, n % HALF>>

\* u32::wrapping_add
u32_wrapping_add(a, b) ==
    LET lo == a[2] + b[2]
        hi == a[1] + b[1] + (lo \div HALF)
    IN  <<hi % HALF, lo % HALF>>

\* u32::wrapping_sub
u32_wrapping_sub(a, b) ==
    LET lo == a[2] - b[2]
        hi == a[1] - b[1] - (IF lo < 0 THEN 1 ELSE 0)
    IN  <<(hi + HALF) % HALF, (lo + HALF) % HALF>>

\* a < b on u32
u32_lt(a, b) == a[1] < b[1] \/ (a[1] = b[1] /\ a[2] < b[2])

\* `x as u8` of a u32
as_u8(x) == x[2] % U8

\* Mutant: the elapsed time without the wrap (u8::saturating_sub).
u8_saturating_sub(a, b) == IF a >= b THEN a - b ELSE 0

\* u8::wrapping_sub
u8_wrapping_sub(a, b) == (a - b + U8) % U8

Up == FALSE
Down == TRUE

\* ---------------------------------------------------------------------
\* firmware/src/lib.rs: enum QuickDraw, edge-emitting step
\* ---------------------------------------------------------------------
Stable(b) == [tag |-> "Stable", value |-> b]
Bouncing(p, c, s) == [tag |-> "Bouncing", prior |-> p, current |-> c, since |-> s]

QuickDrawDefault == Stable(FALSE)

\* Mutant: the Stable arm reports the edge only after filtering.
step_lateEdge(self, state, tnow, stable_time) ==
    IF self.tag = "Stable"
    THEN IF state # self.value
         THEN [next |-> Bouncing(self.value, state, tnow), event |-> None]
         ELSE [next |-> self, event |-> None]
    ELSE IF state # self.current
    THEN [next |-> Bouncing(self.prior, state, tnow), event |-> None]
    ELSE IF u32_lt(u32_wrapping_sub(tnow, self.since), u32_of(stable_time))
    THEN [next |-> self, event |-> None]
    ELSE [next |-> Stable(self.current),
          event |-> IF self.prior # self.current THEN Some(self.current) ELSE None]

\* Mutant: stabilising never cancels the speculative edge.
step_noCancel(self, state, tnow, stable_time) ==
    IF self.tag = "Stable"
    THEN IF state # self.value
         THEN [next |-> Bouncing(self.value, state, tnow), event |-> Some(state)]
         ELSE [next |-> self, event |-> None]
    ELSE IF state # self.current
    THEN [next |-> Bouncing(self.prior, state, tnow), event |-> None]
    ELSE IF u32_lt(u32_wrapping_sub(tnow, self.since), u32_of(stable_time))
    THEN [next |-> self, event |-> None]
    ELSE [next |-> Stable(self.current), event |-> None]

\* Mutant: a bounce inside the Bouncing state is reported as an edge.
step_bounceEdge(self, state, tnow, stable_time) ==
    IF self.tag = "Stable"
    THEN IF state # self.value
         THEN [next |-> Bouncing(self.value, state, tnow), event |-> Some(state)]
         ELSE [next |-> self, event |-> None]
    ELSE IF state # self.current
    THEN [next |-> Bouncing(self.prior, state, tnow), event |-> Some(state)]
    ELSE IF u32_lt(u32_wrapping_sub(tnow, self.since), u32_of(stable_time))
    THEN [next |-> self, event |-> None]
    ELSE [next |-> Stable(self.current),
          event |-> IF self.prior = self.current THEN Some(self.current) ELSE None]

\* Mutant: the stable window is tested with <= instead of <.
step_lateStable(self, state, tnow, stable_time) ==
    IF self.tag = "Stable"
    THEN IF state # self.value
         THEN [next |-> Bouncing(self.value, state, tnow), event |-> Some(state)]
         ELSE [next |-> self, event |-> None]
    ELSE IF state # self.current
    THEN [next |-> Bouncing(self.prior, state, tnow), event |-> None]
    ELSE IF ~u32_lt(u32_of(stable_time), u32_wrapping_sub(tnow, self.since))
    THEN [next |-> self, event |-> None]
    ELSE [next |-> Stable(self.current),
          event |-> IF self.prior = self.current THEN Some(self.current) ELSE None]

\* QuickDraw::step(&mut self, state, now, stable_time) -> Option<bool>;
\* next is the value assigned to *self, event the value returned.
step(self, state, tnow, stable_time) ==
    IF self.tag = "Stable"
    THEN IF state # self.value
         THEN [next |-> Bouncing(self.value, state, tnow), event |-> Some(state)]
         ELSE [next |-> self, event |-> None]
    ELSE IF state # self.current
    THEN [next |-> Bouncing(self.prior, state, tnow), event |-> None]
    ELSE IF u32_lt(u32_wrapping_sub(tnow, self.since), u32_of(stable_time))
    THEN [next |-> self, event |-> None]
    ELSE [next |-> Stable(self.current),
          event |-> IF self.prior = self.current THEN Some(self.current) ELSE None]

\* ---------------------------------------------------------------------
\* fw/src/trigger.rs: QuickDraw<T>, level-based
\* ---------------------------------------------------------------------
state_name(self) ==
    IF self.tag = "Stable"
    THEN IF self.value THEN "StableD" ELSE "StableU"
    ELSE IF self.prior
         THEN IF self.current THEN "BouncingDD" ELSE "BouncingDU"
         ELSE IF self.current THEN "BouncingUD" ELSE "BouncingUU"

\* Mutant: a bouncing key reports its prior level.
is_pressed_prior(self) ==
    IF self.tag = "Stable" THEN self.value ELSE self.prior

is_pressed(self) ==
    IF self.tag = "Stable" THEN self.value ELSE ~self.prior

\* Mutant: the window is tested with <= instead of <.
trigger_step_late(self, state, tnow, T) ==
    IF self.tag = "Stable"
    THEN IF state # self.value
         THEN Bouncing(self.value, state, tnow)
         ELSE self
    ELSE IF state # self.current
    THEN Bouncing(self.prior, state, tnow)
    ELSE IF u8_wrapping_sub(tnow, self.since) <= T
    THEN self
    ELSE Stable(self.current)

\* QuickDraw<T>::step(&mut self, state, now: u8); the result is the new *self.
trigger_step(self, state, tnow, T) ==
    IF self.tag = "Stable"
    THEN IF state # self.value
         THEN Bouncing(self.value, state, tnow)
         ELSE self
    ELSE IF state # self.current
    THEN Bouncing(self.prior, state, tnow)
    ELSE IF u8_wrapping_sub(tnow, self.since) < T
    THEN self
    ELSE Stable(self.current)

\* ---------------------------------------------------------------------
\* fw/src/scan.rs: Log ring and the body of scan's loop for one key
\* ---------------------------------------------------------------------
LOG_SIZE == 1024

KeyState(ts, row, col, deb, event) ==
    [timestamp |-> ts, row |-> row, col |-> col, deb |-> deb, event |-> event]

\* static mut THELOG. The body is kept sparsely: a slot that was never
\* written holds the record it was initialised with (see body_at).
THELOG == [head |-> 0, body |-> <<>>]

body_at(self, i) ==
    IF i \in DOMAIN self.body THEN self.body[i]
    ELSE KeyState(u32_of(0), 0, 0, "StableU", "None")

\* Log::log
log_log(self, elem) ==
    [head |-> (self.head + 1) % LOG_SIZE,
     body |-> [i \in (DOMAIN self.body) \cup {self.head} |->
                  IF i = self.head THEN elem ELSE self.body[i]]]

\* One iteration of scan's inner loop: steps the key's trigger and builds
\* the record handed to Log::log, if any.
scan_cell(old, press, timestamp, T, row, col) ==
    LET new == trigger_step(old, press, as_u8(timestamp), T)
        is_old_pressed == is_pressed(old)
        is_new_pressed == is_pressed(new)
        event == IF is_old_pressed = is_new_pressed THEN "None"
                 ELSE IF is_old_pressed THEN "Release"
                 ELSE "Press"
    IN  [trigger |-> new,
         logged |-> IF new # old
                    THEN Some(KeyState(timestamp, row, col, state_name(new), event))
                    ELSE None]

\* ---------------------------------------------------------------------
\* keyberon/src/action.rs: Action and its shortcuts
\* ---------------------------------------------------------------------
NoOp == [tag |-> "NoOp"]
Trans == [tag |-> "Trans"]
k(kc) == [tag |-> "KeyCode", keycode |-> kc]
m(kcs) == [tag |-> "MultipleKeyCodes", keycodes |-> kcs]
l(layer) == [tag |-> "Layer", value |-> layer]
d(layer) == [tag |-> "DefaultLayer", value |-> layer]

\* ---------------------------------------------------------------------
\* firmware/keyberon/src/layout.rs: Event, State, Layout
\* ---------------------------------------------------------------------
Press(i, j) == [kind |-> "Press", coord |-> <<i, j>>]
Release(i, j) == [kind |-> "Release", coord |-> <<i, j>>]

NormalKey(keycode, coord) == [tag |-> "NormalKey", keycode |-> keycode, coord |-> coord]
LayerModifier(value, coord) == [tag |-> "LayerModifier", value |-> value, coord |-> coord]

\* heapless::Vec<State, U64>
CAPACITY == 64

\* Mutant: the vector grows beyond its capacity.
push_unbounded(vec, x) == Append(vec, x)

\* Vec::push: Err (vector unchanged) when the vector is full.
push(vec, x) == IF Len(vec) < CAPACITY THEN Append(vec, x) ELSE vec

\* slice::get with a 0-based index.
Get(s, i) == IF i < Len(s) THEN Some(s[i + 1]) ELSE None

\* Iterator::filter_map, given the sequence of the Options the closure
\* returned: the contents of the Some values, in order.
RECURSIVE filter_map(_)
filter_map(opts) ==
    IF opts = <<>> THEN <<>>
    ELSE Head(opts) \o filter_map(Tail(opts))

RECURSIVE SumSeq(_)
SumSeq(s) == IF s = <<>> THEN 0 ELSE Head(s) + SumSeq(Tail(s))

State_keycode(self) ==
    IF self.tag = "NormalKey" THEN Some(self.keycode) ELSE None

\* Mutant: only NormalKey states are matched against the released coord.
State_release_keysOnly(self, c) ==
    IF self.tag = "NormalKey" /\ self.coord = c THEN None ELSE Some(self)

State_release_inverted(self, c) ==
    IF self.coord = c THEN Some(self) ELSE None

State_release(self, c) ==
    IF self.coord = c THEN None ELSE Some(self)

State_get_layer(self) ==
    IF self.tag = "LayerModifier" THEN Some(self.value) ELSE None

keycodes(self) ==
    filter_map([i \in 1..Len(self.states) |-> State_keycode(self.states[i])])

\* Mutant: the most recently pressed modifier wins.
current_layer_topmost(self) ==
    LET iter == filter_map([i \in 1..Len(self.states) |->
                                State_get_layer(self.states[i])])
    IN  IF iter = <<>> THEN self.default_layer ELSE iter[Len(iter)]

\* Layout::current_layer: the first modifier value replaces default_layer,
\* the remaining ones are added.
current_layer(self) ==
    LET iter == filter_map([i \in 1..Len(self.states) |->
                                State_get_layer(self.states[i])])
    IN  IF iter = <<>> THEN self.default_layer
        ELSE Head(iter) + SumSeq(Tail(iter))

\* self.layers.get(layer).and_then(get(coord.0)).and_then(get(coord.1))
\* Mutant: an index past the end wraps around instead of yielding None.
lookup_wrapped(self, coord, layer) ==
    LET a == self.layers[(layer % Len(self.layers)) + 1]
        b == a[(coord[1] % Len(a)) + 1]
    IN  Some(b[(coord[2] % Len(b)) + 1])

lookup(self, coord, layer) ==
    LET a == Get(self.layers, layer)
        b == IF a = None THEN None ELSE Get(a[1], coord[1])
    IN  IF b = None THEN None ELSE Get(b[1], coord[2])

\* Mutant: a transparent cell is never retried at the default layer.
press_as_action_noRetry(self, coord, layer) ==
    LET action == lookup(self, coord, layer)
    IN  IF action = None THEN [action |-> NoOp, lookups |-> 1]
        ELSE IF action[1].tag = "Trans" THEN [action |-> NoOp, lookups |-> 1]
        ELSE [action |-> action[1], lookups |-> 1]

\* Layout::press_as_action; lookups counts the calls (1 + recursive ones).
RECURSIVE press_as_action(_, _, _)
press_as_action(self, coord, layer) ==
    LET action == lookup(self, coord, layer)
    IN  IF action = None THEN [action |-> NoOp, lookups |-> 1]
        ELSE IF action[1].tag = "Trans"
        THEN IF layer # self.default_layer
             THEN LET r == press_as_action(self, coord, self.default_layer)
                  IN  [action |-> r.action, lookups |-> r.lookups + 1]
             ELSE [action |-> NoOp, lookups |-> 1]
        ELSE [action |-> action[1], lookups |-> 1]

RECURSIVE push_keycodes(_, _, _)
push_keycodes(vec, v, coord) ==
    IF v = <<>> THEN vec
    ELSE push_keycodes(push(vec, NormalKey(Head(v), coord)), Tail(v), coord)

\* Mutant: DefaultLayer is applied without the range check.
do_action_unchecked(self, action, coord) ==
    CASE action.tag \in {"NoOp", "Trans"} -> self
      [] action.tag = "KeyCode" ->
            [self EXCEPT !.states = push(@, NormalKey(action.keycode, coord))]
      [] action.tag = "MultipleKeyCodes" ->
            [self EXCEPT !.states = push_keycodes(@, action.keycodes, coord)]
      [] action.tag = "Layer" ->
            [self EXCEPT !.states = push(@, LayerModifier(action.value, coord))]
      [] action.tag = "DefaultLayer" ->
            [self EXCEPT !.default_layer = action.value]

do_action(self, action, coord) ==
    CASE action.tag \in {"NoOp", "Trans"} -> self
      [] action.tag = "KeyCode" ->
            [self EXCEPT !.states = push(@, NormalKey(action.keycode, coord))]
      [] action.tag = "MultipleKeyCodes" ->
            [self EXCEPT !.states = push_keycodes(@, action.keycodes, coord)]
      [] action.tag = "Layer" ->
            [self EXCEPT !.states = push(@, LayerModifier(action.value, coord))]
      [] action.tag = "DefaultLayer" ->
            IF action.value < Len(self.layers)
            THEN [self EXCEPT !.default_layer = action.value]
            ELSE self

\* Mutant: the states refer into the layer table: after a release the
\* keys that stay are resolved again on the layer that is current then.
unstack_byReference(self, event) ==
    IF event.kind = "Release"
    THEN LET rest == [self EXCEPT !.states =
                         filter_map([i \in 1..Len(self.states) |->
                                        State_release(self.states[i], event.coord)])]
             again(st) ==
                 IF st.tag # "NormalKey" THEN Some(st)
                 ELSE LET a == press_as_action(rest, st.coord,
                                               current_layer(rest)).action
                      IN  IF a.tag = "KeyCode"
                          THEN Some(NormalKey(a.keycode, st.coord))
                          ELSE None
         IN  [rest EXCEPT !.states =
                 filter_map([i \in 1..Len(rest.states) |-> again(rest.states[i])])]
    ELSE LET action == press_as_action(self, event.coord, current_layer(self)).action
         IN  do_action(self, action, event.coord)

\* Layout::unstack (= Layout::event)
unstack(self, event) ==
    IF event.kind = "Release"
    THEN [self EXCEPT !.states =
             filter_map([i \in 1..Len(self.states) |->
                            State_release(self.states[i], event.coord)])]
    ELSE LET action == press_as_action(self, event.coord, current_layer(self)).action
         IN  do_action(self, action, event.coord)

\* ---------------------------------------------------------------------
\* fw/keyberon/src/layout.rs: single-layer Layout<COL, ROW>
\* ---------------------------------------------------------------------
FwState(keycode, coord) == [keycode |-> keycode, coord |-> coord]

fw_keycodes(sts) == [i \in 1..Len(sts) |-> sts[i].keycode]

\* Mutant: a release drops the states by keycode instead of by coord.
fw_event_byKeycode(table, sts, event) ==
    LET row == Get(table, event.coord[1])
        cellkc == IF row = None THEN None ELSE Get(row[1], event.coord[2])
        kc == IF cellkc = None THEN "No" ELSE cellkc[1]
    IN  IF event.kind = "Release"
        THEN SelectSeq(sts, LAMBDA s : s.keycode # kc)
        ELSE IF kc # "No" THEN push(sts, FwState(kc, event.coord)) ELSE sts

\* Layout::event of the single-layer variant; the result is the new states.
fw_event(table, sts, event) ==
    IF event.kind = "Release"
    THEN SelectSeq(sts, LAMBDA s : s.coord # event.coord)
    ELSE LET row == Get(table, event.coord[1])
             cellkc == IF row = None THEN None ELSE Get(row[1], event.coord[2])
             kc == IF cellkc = None THEN "No" ELSE cellkc[1]
         IN  IF kc # "No" THEN push(sts, FwState(kc, event.coord)) ELSE sts

\* ---------------------------------------------------------------------
\* Layer tables the layout engine is exercised with
\* ---------------------------------------------------------------------
\* Three layers of 2 rows x 3 columns: keys, two layer modifiers, default
\* layer switches (valid and out of range), a shifted key, transparent cells.
LAYERS_A ==
    << << << k("A"), l(1), l(2) >>,
          << d(1), m(<<"LShift", "Kb1">>), Trans >> >>,
       << << Trans, l(1), l(2) >>,
          << d(3), k("B"), Trans >> >>,
       << << k("C"), Trans, Trans >>,
          << d(0), Trans, NoOp >> >> >>

\* Four layers of 1 row x 3 columns: Layer(1) and Layer(2) on the base layer,
\* transparent above it, and the keycode X on layer 3 only.
LAYERS_S3 ==
    << << << l(1), l(2), NoOp >> >>,
       << << Trans, Trans, NoOp >> >>,
       << << Trans, Trans, NoOp >> >>,
       << << Trans, Trans, k("X") >> >> >>

\* The event sequence applied to LAYERS_S3: both modifiers, the key, then
\* the releases.
S3_Script ==
    << Press(0, 0), Press(0, 1), Press(0, 2),
       Release(0, 1), Release(0, 0), Release(0, 2) >>

Tables == {LAYERS_A, LAYERS_S3}

\* Two layers of 2 rows x 3 columns whose chords fill the state stack: two
\* chords of ChordLen keycodes each leave room for two more states.
ChordLen == (CAPACITY - 2) \div 2
BigChord == [i \in 1..ChordLen |-> "Kp0"]
LAYERS_BIG ==
    << << << m(BigChord), m(BigChord), m(<<"LShift", "Kb1">>) >>,
          << k("A"), l(1), NoOp >> >>,
       << << Trans, Trans, Trans >>,
          << k("B"), Trans, NoOp >> >> >>

KeyTables == {LAYERS_A, LAYERS_BIG}

FW_LAYERS ==
    << << "A", "No", "B" >>,
       << "LShift", "C", "A" >> >>

\* Coordinates of the events: the 2 x 3 matrix, one coord below its last
\* row and one right of its last column.
Coords == ((0..1) \X (0..2)) \cup {<<2, 0>>, <<0, 3>>}

\* Start values of the tick counter: boot, and shortly before the u32 (and
\* u8) counter wraps, reached after idle scanning.
StartTicks == {u32_of(0), <<HALF - 1, HALF - 3>>}

\* ---------------------------------------------------------------------
\* Initial states
\* ---------------------------------------------------------------------
InitDebouncer ==
    /\ cell = QuickDrawDefault
    /\ trig = QuickDrawDefault
    /\ log = THELOG
    /\ sample = Up
    /\ emitted = None
    /\ logged = None
    /\ prevCell = QuickDrawDefault
    /\ prevTrig = QuickDrawDefault
    /\ ticks = 0
    /\ edges = 0
    /\ transitions = 0
    /\ run = 0
    /\ level = Up

\* ---------------------------------------------------------------------
\* Scan double buffer: constants and flag register
\* ---------------------------------------------------------------------
\* Words of one frame: scanout is [[u8; 6]; 2].
FRAME == 6

\* Index of the ISR/IFCR flag group of the row-sampling transfer: the
\* consumers select the half from htif4, which dma_key_scan documents as
\* the half-complete status bit of that transfer.
ROW_FLAGS == 4
FlagGroups == {4, 5}

NoFlags == [htif |-> FALSE, tcif |-> FALSE]

\* isr().bits() != 0, restricted to the flag groups of the model.
isr_bits_nonzero(r) == \E c \in FlagGroups : r[c].htif \/ r[c].tcif

\* ifcr().write(|w| w.cgifN().clear()): clears every flag of group N.
ifcr_cgif(r, n) == [r EXCEPT ![n] = NoFlags]

\* Mutant: buffer 1 on half-complete, buffer 0 on complete.
select_half_swapped(htif) == IF htif THEN 1 ELSE 0

\* let half = if htif4 { 0 } else { 1 }
select_half(htif) == IF htif THEN 0 ELSE 1

InitDma ==
    /\ isr = [c \in FlagGroups |-> NoFlags]
    /\ dmaPos = 0
    /\ scanout = [i \in 0..(2 * FRAME - 1) |-> 0]
    /\ scans = 0
    /\ pc = "idle"
    /\ half = 0
    /\ rd = 0
    /\ got = <<>>
    /\ frames = <<>>
    /\ entryHtif = FALSE
    /\ cleared = TRUE
    /\ fresh = FALSE
    /\ late = FALSE

\* Pins of GPIOB wired to the six columns: PB3..PB8.
COL_PINS == 3..8

\* The pins whose bit is set in the 16-bit value n.
PinsOf(n) == {i \in 0..15 : (n \div (2 ^ i)) % 2 = 1}

\* Mutant: the strobe words set their column and reset nothing.
SCANIN_setOnly == [idx \in 0..5 |-> 2 ^ (3 + idx)]

\* const SCANIN: [u32; 6], indexed from 0: the upper 16 bits reset pins,
\* the lower 16 bits set pins.
SCANIN ==
    [idx \in 0..5 |->
        CASE idx = 0 -> 496 * HALF + 8       \* (0b111110000 << 16) | 0b000001000
          [] idx = 1 -> 488 * HALF + 16      \* (0b111101000 << 16) | 0b000010000
          [] idx = 2 -> 472 * HALF + 32      \* (0b111011000 << 16) | 0b000100000
          [] idx = 3 -> 440 * HALF + 64      \* (0b110111000 << 16) | 0b001000000
          [] idx = 4 -> 376 * HALF + 128     \* (0b101111000 << 16) | 0b010000000
          [] idx = 5 -> 248 * HALF + 256]    \* (0b011111000 << 16) | 0b100000000

\* Transfer length of the strobe channel: the number of words of SCANIN.
STROBE_LEN == Cardinality(DOMAIN SCANIN)

\* A write of w to the bit set/reset register: the pins of the upper half
\* are reset, the pins of the lower half are set (set wins).
bsrr_write(pins, w) == (pins \ PinsOf(w \div HALF)) \cup PinsOf(w % HALF)

\* The columns (0..5) driven high.
DrivenColumns(pins) == {p - 3 : p \in pins \cap COL_PINS}

InitStrobe ==
    /\ odr = {}
    /\ strobePos = 0
    /\ timPhase = "cc4"
    /\ sampled = [i \in 0..(2 * FRAME - 1) |-> {}]
    /\ strobes = 0

\* 5.khz() scans per second, six column slots per scan, TIM1 on the
\* 72 MHz clock.
SCAN_FREQ == 5000
SYSCLK == 72000000

\* `x as u16`
as_u16(x) == x % HALF

\* An addition or multiplication on u16 whose exact result is x: x when it
\* fits; above, a build with overflow checks panics and one without wraps.
u16_arith(x, checks) ==
    IF x < HALF THEN [val |-> x, panic |-> FALSE]
    ELSE [val |-> x % HALF, panic |-> checks]

\* compute_arr_presc(freq, clock), 1 <= freq <= clock < 2^31: psc + 1 is a
\* u16 addition, a division by zero panics in every build.
compute_arr_presc(freq, clock, checks) ==
    LET period == clock \div freq
        psc == as_u16((period - 1) \div HALF)
        psc1 == u16_arith(psc + 1, checks)
    IN  IF psc1.panic \/ psc1.val = 0
        THEN [psc |-> psc, arr |-> 0, panic |-> TRUE]
        ELSE [psc |-> psc, arr |-> as_u16(period \div psc1.val), panic |-> FALSE]

\* TIM1 before dma_key_scan: the slot frequency and timer clock it will be
\* given and whether the build checks overflow.
Tim1Reset(freq, clock, checks) ==
    [state |-> "reset", freq |-> freq, clock |-> clock, checks |-> checks,
     psc |-> 0, arr |-> 0, ccr4 |-> 0]

\* The timer part of dma_key_scan: CCR4 = arr * 2 / 5 on u16, then PSC and
\* ARR.
tim1_setup(t) ==
    LET r == compute_arr_presc(t.freq, t.clock, t.checks)
        twice == u16_arith(r.arr * 2, t.checks)
    IN  IF r.panic \/ twice.panic
        THEN [t EXCEPT !.state = "panic"]
        ELSE [t EXCEPT !.state = "set", !.psc = r.psc, !.arr = r.arr,
                       !.ccr4 = twice.val \div 5]

InitTim ==
    /\ tim1 = tim1_setup(Tim1Reset(SCAN_FREQ * 6, SYSCLK, TRUE))
    /\ InitStrobe


\* ---------------------------------------------------------------------
\* Tick-driven layout: actions, tables and initial state
\* ---------------------------------------------------------------------
HoldTap(t, hold, tap) == [tag |-> "HoldTap", timeout |-> t, hold |-> hold, tap |-> tap]
MultipleActions(as) == [tag |-> "MultipleActions", actions |-> as]
Custom(t) == [tag |-> "Custom", value |-> t]

\* The state a Custom action leaves on the stack: no keycode, no layer.
CustomState(value, coord) == [tag |-> "Custom", value |-> value, coord |-> coord]

NoEvent == [kind |-> "NoEvent"]
CustomPress(value) == [kind |-> "Press", value |-> value]
CustomRelease(value) == [kind |-> "Release", value |-> value]

\* The tables of the tests basic_hold_tap (with short timeouts),
\* multiple_actions and custom.
LAYERS_HT ==
    << << << HoldTap(3, l(1), k("Space")), HoldTap(2, k("LCtrl"), k("Enter")) >> >>,
       << << Trans, m(<<"LCtrl", "Enter">>) >> >> >>

LAYERS_MA ==
    << << << MultipleActions(<<l(1), k("LShift")>>), k("F") >> >>,
       << << Trans, k("E") >> >> >>

LAYERS_CUSTOM == << << << Custom(42), k("A") >> >> >>

KbTables == {LAYERS_HT, LAYERS_MA, LAYERS_CUSTOM}
KbCoords == {<<0, 0>>, <<0, 1>>}

\* Layout::new(layers)
Layout_new(table) ==
    [layers |-> table, default_layer |-> 0, states |-> <<>>,
     waiting |-> None, stacked |-> <<>>]

InitKb(table) ==
    /\ kb = Layout_new(table)
    /\ custom = NoEvent
    /\ did = "idle"
    /\ kticks = 0
    /\ given = <<>>
    /\ applied = <<>>
    /\ appliedBefore = 0
    /\ resolved = None
    /\ kheld = {}

\* ---------------------------------------------------------------------
\* Boot singletons
\* ---------------------------------------------------------------------
\* Mutant: Log::get without the TAKEN flag.
Log_get_unchecked(taken) == [taken |-> TRUE, panic |-> FALSE]

\* Log::get: TAKEN.swap(true) returns the old flag; a set flag panics.
Log_get(taken) == [taken |-> TRUE, panic |-> taken]

\* singleton!(: [[u8; 6]; 2] = ..): Some(&mut) the first time, None later;
\* unwrap() of None panics.
singleton_unwrap(taken) == [taken |-> TRUE, panic |-> (IF taken THEN None ELSE Some("scanout")) = None]

\* state-slurp before it attaches.
ReaderIdle == [pc |-> "idle", head_val |-> 0, pos |-> 0, buf |-> <<>>, n0 |-> 0]

\* Reset: nothing taken yet.
InitReset ==
    /\ TAKEN = FALSE
    /\ logRefs = 0
    /\ getCalls = 0
    /\ scanoutTaken = FALSE
    /\ scanRefs = 0
    /\ scanCalls = 0
    /\ bootPanic = FALSE
    /\ written = <<>>
    /\ reader = ReaderIdle

\* After init / the head of main: both singletons taken once.
InitBooted ==
    /\ TAKEN = TRUE
    /\ logRefs = 1
    /\ getCalls = 1
    /\ scanoutTaken = TRUE
    /\ scanRefs = 1
    /\ scanCalls = 1
    /\ bootPanic = FALSE
    /\ written = <<>>
    /\ reader = ReaderIdle

Booted == logRefs >= 1 /\ scanRefs >= 1 /\ ~bootPanic

\* ---------------------------------------------------------------------
\* HID report and USB class
\* ---------------------------------------------------------------------
MODIFIERS == {"LCtrl", "LShift", "LAlt", "LGui", "RCtrl", "RShift", "RAlt", "RGui"}

\* KbHidReport::default(): no modifier, no key.
KbHidReport_default == [mods |-> {}, keys |-> <<>>]

ROLLOVER == [i \in 1..6 |-> "ErrorRollOver"]

\* KbHidReport from an iterator of keycodes: the modifiers go to the
\* bitmask, the other keycodes to the six key slots in order; a seventh
\* one fills the slots with the rollover indicator.
KbHidReport_collect(kcs) ==
    LET nonmod == SelectSeq(kcs, LAMBDA kc : kc \notin MODIFIERS /\ kc # "No")
    IN  [mods |-> {kcs[i] : i \in {j \in 1..Len(kcs) : kcs[j] \in MODIFIERS}},
         keys |-> IF Len(nonmod) > 6 THEN ROLLOVER ELSE nonmod]

\* Mutant: every report counts as changed.
set_keyboard_report_always(dev, rep) == [changed |-> TRUE, report |-> rep]

\* Keyboard::set_keyboard_report(report): stores the report and tells
\* whether it differs from the one held.
set_keyboard_report(dev, rep) == [changed |-> rep # dev, report |-> rep]

\* HidClass::write: the bytes accepted, zero while the endpoint is full.
hid_write(busy) == IF busy THEN 0 ELSE 8

InitUsbClass ==
    /\ active = <<>>
    /\ tickPc = "idle"
    /\ pending = <<>>
    /\ rxByte = None
    /\ report = KbHidReport_default
    /\ devReport = KbHidReport_default
    /\ epBusy = FALSE
    /\ sent = KbHidReport_default
    /\ nframes = 0
    /\ polls = 0
    /\ retries = 0
    /\ frameEvents = 0
    /\ mixed = FALSE
    /\ nested = FALSE
    /\ usbSnap = <<>>
    /\ lastStep = "none"
    /\ sentBefore = KbHidReport_default
    /\ writeCalls = 0

\* The matrix of one half, scaled down to 2 rows x 2 columns.
MxRows == 0..1
MxCols == 0..1
MxCoords == MxRows \X MxCols

\* [[QuickDraw::default(); R]; C], an empty layout, no frame read yet.
InitMatrix ==
    /\ triggers = [c \in MxCoords |-> QuickDrawDefault]
    /\ fwtriggers = [c \in MxCoords |-> QuickDrawDefault]
    /\ scanhalf = [c \in MxCols |-> 0]
    /\ mevents = <<>>
    /\ stepLog = <<>>
    /\ mstates = <<>>
    /\ mreport = <<>>
    /\ prevTriggers = [c \in MxCoords |-> QuickDrawDefault]
    /\ mframes = 0
    /\ nowBefore = u32_of(0)
    /\ produced = <<>>
    /\ appliedLog = <<>>
    /\ txQueue = <<>>
    /\ tdr = None
    /\ txsr = None
    /\ rdr = None
    /\ ore = FALSE
    /\ lhalted = FALSE

InitUsbIdle == InitUsbClass /\ InitKb(LAYERS_MA) /\ InitMatrix

InitDmaIdle == consumer = "tick" /\ InitDma /\ InitTim /\ InitUsbIdle

InitRx ==
    /\ halted = FALSE
    /\ lastRx = "None"
    /\ rxBefore = <<>>

InitLinkIdle ==
    /\ tree = "src"
    /\ wire = None
    /\ kevent = None
    /\ evSent = None
    /\ evRecv = None
    /\ nmsgs = 0
    /\ InitRx

InitLayoutEngine ==
    /\ default_layer = 0
    /\ states = <<>>
    /\ fw_states = <<>>
    /\ lastEvent = None
    /\ prevStates = <<>>
    /\ prevFwStates = <<>>
    /\ prevDefault = 0
    /\ prevLayer = 0
    /\ lookups = 0
    /\ nevents = 0
    /\ held = {}
    /\ dropped = {}
    /\ scriptPos = 0

\* ---------------------------------------------------------------------
\* Debouncer: one scan tick of one key
\* ---------------------------------------------------------------------
\* tick / main loop: now = now.wrapping_add(1), then the key is stepped by
\* keys_from_scan (firmware) and by scan (fw) with the same sample.
ScanTick(s) ==
    /\ Booted
    /\ LET n == u32_wrapping_add(now, u32_of(1))
           r == step(cell, s, n, timeout)
           sc == scan_cell(trig, s, n, timeout, 0, 0)
       IN  /\ now' = n
           /\ cell' = r.next
           /\ emitted' = r.event
           /\ trig' = sc.trigger
           /\ logged' = sc.logged
           /\ log' = IF sc.logged = None THEN log ELSE log_log(log, sc.logged[1])
           /\ written' = IF sc.logged = None THEN written
                         ELSE Append(written, sc.logged[1])
           /\ edges' = edges + (IF r.event = None THEN 0 ELSE 1)
           /\ level' = IF r.event = None THEN level ELSE r.event[1]
    /\ prevCell' = cell
    /\ prevTrig' = trig
    /\ transitions' = transitions + (IF s # sample THEN 1 ELSE 0)
    /\ run' = IF s # sample THEN 1 ELSE run + 1
    /\ sample' = s
    /\ ticks' = ticks + 1
    /\ UNCHANGED <<timeout, layVars, linkVars, dmaVars, timVars, usbVars, bootVars, reader, kbVars, mxVars, pairVars>>

Tick(s) == ticks < MaxTicks /\ ScanTick(s)

\* A call of Log::get().
LogGet ==
    /\ ~bootPanic
    /\ LET r == Log_get(TAKEN)
       IN  /\ TAKEN' = r.taken
           /\ bootPanic' = r.panic
           /\ logRefs' = IF r.panic THEN logRefs ELSE logRefs + 1
    /\ getCalls' = getCalls + 1
    /\ UNCHANGED <<scanoutTaken, scanRefs, scanCalls, written, reader>>
    /\ UNCHANGED <<qdVars, layVars, linkVars, dmaVars, timVars, usbVars, kbVars, mxVars, pairVars>>

\* A call of dma_key_scan: the allocation of the scan buffer.
DmaKeyScan ==
    /\ ~bootPanic
    /\ LET r == singleton_unwrap(scanoutTaken)
       IN  /\ scanoutTaken' = r.taken
           /\ bootPanic' = r.panic
           /\ scanRefs' = IF r.panic THEN scanRefs ELSE scanRefs + 1
    /\ scanCalls' = scanCalls + 1
    /\ UNCHANGED <<TAKEN, logRefs, getCalls, written, reader>>
    /\ UNCHANGED <<qdVars, layVars, linkVars, dmaVars, timVars, usbVars, kbVars, mxVars, pairVars>>

InitQD ==
    /\ InitReset
    /\ InitDmaIdle
    /\ InitDebouncer
    /\ InitLinkIdle
    /\ now \in StartTicks
    /\ timeout \in 1..MaxTimeout
    /\ InitLayoutEngine
    /\ layers = LAYERS_A

NextQD ==
    \/ LogGet
    \/ DmaKeyScan
    \/ \E s \in BOOLEAN : Tick(s)

SpecQD == InitQD /\ [][NextQD]_vars

\* ---------------------------------------------------------------------
\* Debouncer: the stable windows of the sources, across the wrap
\* ---------------------------------------------------------------------
\* timeout: 75 of the Keyboard resource; QuickDraw<100> of the main loop.
TIMEOUT == 75
TRIGGER_T == 100

\* The key may bounce during the first BounceTicks scans and then rests.
BounceTicks == 3
MaxWinTicks == 106

\* Tick counters 56 scans before both the u32 and its low byte wrap, and
\* the counter after reset.
WinStartTicks == {u32_of(0), <<HALF - 1, HALF - 56>>}

\* One scan tick of a key that rests after its first scans.
WinTick(s) ==
    /\ ticks < MaxWinTicks
    /\ ticks >= BounceTicks => s = sample
    /\ ScanTick(s)

InitWin ==
    /\ InitBooted
    /\ InitDmaIdle
    /\ InitDebouncer
    /\ InitLinkIdle
    /\ now \in WinStartTicks
    /\ timeout \in {TIMEOUT, TRIGGER_T}
    /\ InitLayoutEngine
    /\ layers = LAYERS_A

NextWin == \E s \in BOOLEAN : WinTick(s)

SpecWin == InitWin /\ [][NextWin]_vars

\* ---------------------------------------------------------------------
\* Timer setup: slot frequency and timer clock to PSC, ARR and CCR4
\* ---------------------------------------------------------------------
\* Slot frequencies and timer clocks: the deployed ones (12, 30 and 180 kHz
\* slots, 72 MHz), the slowest slots, and those around the steps of the
\* prescaler and of the 16-bit reload value.
SlotFreqs ==
    {1, 2, 3, 6, 550, 1098, 1099, 1500, 2197, 2198, 12000, 30000, 180000}
TimerClocks ==
    {1, 5, 32767, 32768, 65535, 65536, 65537, 131072, 196608, 8000000, 36000000,
     72000000}

\* dma_key_scan programs the timer.
TimSetup ==
    /\ tim1.state = "reset"
    /\ tim1' = tim1_setup(tim1)
    /\ UNCHANGED <<odr, strobePos, timPhase, sampled, strobes>>
    /\ UNCHANGED <<qdVars, layVars, linkVars, dmaVars, usbVars, logVars, kbVars,
                   mxVars, pairVars>>

InitTimSetup ==
    /\ InitReset
    /\ consumer = "tick" /\ InitDma /\ InitStrobe /\ InitUsbIdle
    /\ \E f \in SlotFreqs, c \in TimerClocks, ch \in BOOLEAN :
          f <= c /\ tim1 = Tim1Reset(f, c, ch)
    /\ InitDebouncer
    /\ InitLinkIdle
    /\ InitLayoutEngine
    /\ layers = LAYERS_A
    /\ now = u32_of(0)
    /\ timeout = 1

NextTimSetup == TimSetup

SpecTimSetup ==
    /\ InitTimSetup
    /\ [][NextTimSetup]_vars

\* ---------------------------------------------------------------------
\* Layout engine: one event
\* ---------------------------------------------------------------------
Self == [layers |-> layers, default_layer |-> default_layer, states |-> states]

\* The arms of do_action that push a state.
WouldPush(action) ==
    \/ action.tag \in {"KeyCode", "Layer"}
    \/ action.tag = "MultipleKeyCodes" /\ action.keycodes # <<>>

\* The state of both layout variants.
LayoutSnapshot == <<states, default_layer, fw_states>>

\* Layout::event(event) of both layout variants.
Event(e) ==
    /\ nevents < MaxEvents
    /\ LET new == unstack(Self, e)
       IN  /\ states' = new.states
           /\ default_layer' = new.default_layer
    /\ fw_states' = fw_event(FW_LAYERS, fw_states, e)
    /\ lastEvent' = Some(e)
    /\ prevStates' = states
    /\ prevFwStates' = fw_states
    /\ prevDefault' = default_layer
    /\ prevLayer' = current_layer(Self)
    /\ lookups' = IF e.kind = "Press"
                  THEN press_as_action(Self, e.coord, current_layer(Self)).lookups
                  ELSE 0
    /\ nevents' = nevents + 1
    /\ held' = IF e.kind = "Press" THEN held \cup {e.coord} ELSE held \ {e.coord}
    /\ dropped' = IF e.kind = "Release" THEN dropped
                  ELSE IF /\ Len(states) = CAPACITY
                          /\ WouldPush(press_as_action(Self, e.coord,
                                                       current_layer(Self)).action)
                       THEN dropped \cup {e.coord}
                       ELSE dropped \ {e.coord}
    /\ scriptPos' = IF /\ scriptPos = nevents
                       /\ nevents < Len(S3_Script)
                       /\ e = S3_Script[nevents + 1]
                    THEN nevents + 1
                    ELSE scriptPos
    /\ UNCHANGED <<layers, qdVars>>

PressEvent(c) == Event(Press(c[1], c[2])) /\ UNCHANGED <<linkVars, dmaVars, timVars, usbVars, logVars, kbVars, mxVars, pairVars>>
ReleaseEvent(c) == Event(Release(c[1], c[2])) /\ UNCHANGED <<linkVars, dmaVars, timVars, usbVars, logVars, kbVars, mxVars, pairVars>>

InitLayout ==
    /\ InitBooted
    /\ InitDmaIdle
    /\ InitLinkIdle
    /\ InitLayoutEngine
    /\ layers \in Tables
    /\ InitDebouncer
    /\ now = u32_of(0)
    /\ timeout = 1

NextLayout == \E c \in Coords : PressEvent(c) \/ ReleaseEvent(c)

SpecLayout == InitLayout /\ [][NextLayout]_vars

\* ---------------------------------------------------------------------
\* Layout engine driven by keys: the events of one coord alternate
\* ---------------------------------------------------------------------
\* The debouncer of a key emits Press only for a key that is up and Release
\* only for a key that is down, so the events of a coord alternate, Press
\* first.
KeyDown(c) == c \notin held /\ PressEvent(c)
KeyUp(c) == c \in held /\ ReleaseEvent(c)

InitKeys ==
    /\ InitBooted
    /\ InitDmaIdle
    /\ InitLinkIdle
    /\ InitLayoutEngine
    /\ layers \in KeyTables
    /\ InitDebouncer
    /\ now = u32_of(0)
    /\ timeout = 1

NextKeys == \E c \in Coords : KeyDown(c) \/ KeyUp(c)

SpecKeys == InitKeys /\ [][NextKeys]_vars

\* ---------------------------------------------------------------------
\* Half-to-half serial link: one octet per key event
\* ---------------------------------------------------------------------
\* struct KeyEvent { row: Integer<u8, Bits3>, col: Integer<u8, Bits3>, brk }
KeyEvent(row, col, brk) == [row |-> row, col |-> col, brk |-> brk]

\* Bit i of the w-bit value v, bit 0 being the most significant one.
Bit(v, w, i) == (v \div (2 ^ (w - 1 - i))) % 2

\* Mutant: the fields are placed with bit 0 as the least significant bit.
pack_lsb0(self) == self.row + self.col * 8 + (IF self.brk THEN 128 ELSE 0)

\* KeyEvent::pack, derived with bit_numbering = "msb0": row in bits 0..=2,
\* col in bits 3..=5, bit 6 unused (zero), brk in bit 7.
pack(self) ==
    LET b == [i \in 0..7 |->
                IF i <= 2 THEN Bit(self.row, 3, i)
                ELSE IF i <= 5 THEN Bit(self.col, 3, i - 3)
                ELSE IF i = 7 THEN (IF self.brk THEN 1 ELSE 0)
                ELSE 0]
    IN  b[0] * 128 + b[1] * 64 + b[2] * 32 + b[3] * 16
        + b[4] * 8 + b[5] * 4 + b[6] * 2 + b[7]

\* Mutant: the fields are read with bit 0 as the least significant bit.
unpack_lsb0(byte) == KeyEvent(byte % 8, (byte \div 8) % 8, byte \div 128 = 1)

\* KeyEvent::unpack: bit 6 is not looked at.
unpack(byte) ==
    LET b == [i \in 0..7 |-> Bit(byte, 8, i)]
    IN  KeyEvent(b[0] * 4 + b[1] * 2 + b[2], b[3] * 4 + b[4] * 2 + b[5], b[7] = 1)

\* The frame the scanning half builds for an event: src/bin/left.rs sets
\* brk for Release, fw/src/bin/left.rs sets brk = (state == Press).
left_kevent(t, event) ==
    KeyEvent(event.coord[1], event.coord[2],
             IF t = "fw" THEN event.kind = "Press" ELSE event.kind = "Release")

\* The event the USB half builds from a frame: src/bin/right.rs (and
\* firmware/src/bin/right.rs) decode brk as Release, fw/src/bin/right.rs
\* decodes brk as Press.
right_event(t, ke) ==
    IF t = "fw"
    THEN (IF ke.brk THEN Press(ke.row, ke.col) ELSE Release(ke.row, ke.col))
    ELSE (IF ke.brk THEN Release(ke.row, ke.col) ELSE Press(ke.row, ke.col))

\* Rows and columns a frame can carry.
WireCoords == (0..7) \X (0..7)

\* tick of the scanning half, for one event of the scan: the event is
\* packed and written to the serial transmitter (which takes the octet
\* when the previous one has left).
LeftTick(e) ==
    /\ nmsgs < MaxMsgs
    /\ wire = None
    /\ kevent' = Some(left_kevent(tree, e))
    /\ wire' = Some(pack(left_kevent(tree, e)))
    /\ evSent' = Some(e)
    /\ evRecv' = None
    /\ nmsgs' = nmsgs + 1
    /\ UNCHANGED <<tree, halted, lastRx, rxBefore>>
    /\ UNCHANGED <<qdVars, layVars, dmaVars, timVars, usbVars, logVars, kbVars, mxVars, pairVars>>

\* uart_rx of the USB half: the octet is read and unpacked, and the event
\* is given to the layout.
UartRx ==
    /\ ~halted
    /\ wire # None
    /\ LET event == right_event(tree, unpack(wire[1]))
       IN  /\ evRecv' = Some(event)
           /\ Event(event)
    /\ wire' = None
    /\ lastRx' = "Ok"
    /\ rxBefore' = LayoutSnapshot
    /\ UNCHANGED <<tree, kevent, evSent, nmsgs, halted, dmaVars, timVars, usbVars, logVars, kbVars, mxVars, pairVars>>

\* Error results of the serial read: the receive errors of the serial
\* peripheral (the last one stands for any further kind) and WouldBlock.
RxErrors == {"Framing", "Noise", "Overrun", "Parity", "Extensible"}

\* What uart_rx does with Err(err): src/bin/right.rs panics on every Err;
\* firmware/src/bin/right.rs and fw/src/bin/right.rs panic on
\* nb::Error::Other(_) and return on nb::Error::WouldBlock.
uart_rx_err(t, err) ==
    IF err = "WouldBlock"
    THEN (IF t = "src" THEN "panic" ELSE "return")
    ELSE "panic"

\* uart_rx of the USB half when rx.read() returns Err: a receive error
\* comes with an octet that is lost; WouldBlock comes when no octet is
\* there (spurious interrupt).
UartRxErr(err) ==
    /\ ~halted
    /\ IF err = "WouldBlock" THEN wire = None ELSE wire # None
    /\ wire' = None
    /\ halted' = (uart_rx_err(tree, err) = "panic")
    /\ lastRx' = err
    /\ rxBefore' = LayoutSnapshot
    /\ UNCHANGED <<tree, kevent, evSent, evRecv, nmsgs>>
    /\ UNCHANGED <<qdVars, layVars, dmaVars, timVars, usbVars, logVars, kbVars, mxVars, pairVars>>

InitLink ==
    /\ InitBooted
    /\ InitDmaIdle
    /\ InitLayoutEngine
    /\ layers = LAYERS_A
    /\ InitDebouncer
    /\ now = u32_of(0)
    /\ timeout = 1
    /\ tree \in {"src", "fw"}
    /\ wire = None
    /\ kevent = None
    /\ evSent = None
    /\ evRecv = None
    /\ nmsgs = 0
    /\ InitRx

NextLink ==
    \/ \E c \in WireCoords : LeftTick(Press(c[1], c[2])) \/ LeftTick(Release(c[1], c[2]))
    \/ UartRx
    \/ \E err \in RxErrors \cup {"WouldBlock"} : UartRxErr(err)

SpecLink == InitLink /\ [][NextLink]_vars

\* ---------------------------------------------------------------------
\* Scan double buffer: the row-sampling DMA and its consumer
\* ---------------------------------------------------------------------
\* One transfer of DMA1 channel 4, requested by compare 4 of TIM1 at 2/5 of
\* the period: the next word of SCANIN (circular) is written to the BSRR of
\* GPIOB.
Strobe ==
    /\ scans < MaxScans
    /\ timPhase = "cc4"
    /\ timPhase' = "upd"
    /\ odr' = bsrr_write(odr, SCANIN[strobePos])
    /\ strobePos' = (strobePos + 1) % STROBE_LEN
    /\ strobes' = strobes + 1
    /\ UNCHANGED <<sampled, tim1, dmaVars, qdVars, layVars, linkVars, usbVars, logVars, kbVars, mxVars, pairVars>>

\* One transfer of DMA1 channel 5 (circular over both frames, never
\* stopped): a word is stored; the half-transfer flag is raised when frame 0
\* is complete, the transfer-complete flag when frame 1 is complete.
DmaWrite ==
    /\ scans < MaxScans
    /\ LET next == (dmaPos + 1) % (2 * FRAME)
           complete == next \in {0, FRAME}
       IN  /\ scanout' = [scanout EXCEPT ![dmaPos] = scans + 1]
           /\ dmaPos' = next
           /\ isr' = IF next = FRAME
                     THEN [isr EXCEPT ![ROW_FLAGS].htif = TRUE]
                     ELSE IF next = 0
                          THEN [isr EXCEPT ![ROW_FLAGS].tcif = TRUE]
                          ELSE isr
           /\ scans' = IF complete THEN scans + 1 ELSE scans
           /\ late' = (late \/ (complete /\ (fresh \/ pc # "idle")))
           /\ fresh' = (complete \/ fresh)
    /\ timPhase = "upd"
    /\ timPhase' = "cc4"
    /\ sampled' = [sampled EXCEPT ![dmaPos] = DrivenColumns(odr)]
    /\ UNCHANGED <<consumer, pc, half, rd, got, frames, entryHtif, cleared>>
    /\ UNCHANGED <<odr, strobePos, strobes, tim1>>
    /\ UNCHANGED <<qdVars, layVars, linkVars, usbVars, logVars, kbVars, mxVars, pairVars>>

\* The consumer starts a run and selects the half: tick is entered on the
\* interrupt request of the row transfer; the loop of main takes the branch
\* when any bit of the status register it read is set.
Select ==
    /\ pc = "idle"
    /\ Len(frames) <= MaxScans
    /\ IF consumer = "tick"
       THEN isr[ROW_FLAGS].htif \/ isr[ROW_FLAGS].tcif
       ELSE isr_bits_nonzero(isr)
    /\ half' = select_half(isr[4].htif)
    /\ entryHtif' = isr[4].htif
    /\ fresh' = FALSE
    /\ pc' = "clear"
    /\ UNCHANGED <<consumer, isr, dmaPos, scanout, scans, rd, got, frames,
                   cleared, late>>
    /\ UNCHANGED <<qdVars, layVars, linkVars, timVars, usbVars, logVars, kbVars, mxVars, pairVars>>

\* The clearing write and the tick count: tick writes cgif4, the loop of
\* main writes cgif5.
ClearFlags ==
    /\ pc = "clear"
    /\ isr' = ifcr_cgif(isr, IF consumer = "tick" THEN 4 ELSE 5)
    /\ cleared' = (isr'[ROW_FLAGS] = NoFlags)
    /\ now' = u32_wrapping_add(now, u32_of(1))
    /\ rd' = 0
    /\ got' = <<>>
    /\ pc' = "read"
    /\ UNCHANGED <<consumer, dmaPos, scanout, scans, half, frames, entryHtif,
                   fresh, late>>
    /\ UNCHANGED <<cell, trig, timeout, log, sample, emitted, logged, prevCell,
                   prevTrig, ticks, edges, transitions, run, level>>
    /\ UNCHANGED <<layVars, linkVars, timVars, usbVars, logVars, kbVars, mxVars, pairVars>>

\* keys_from_scan / scan reads the next word of the selected half.
ReadWord ==
    /\ pc = "read"
    /\ rd < FRAME
    /\ got' = Append(got, scanout[half * FRAME + rd])
    /\ rd' = rd + 1
    /\ UNCHANGED <<consumer, isr, dmaPos, scanout, scans, pc, half, frames,
                   entryHtif, cleared, fresh, late>>
    /\ UNCHANGED <<qdVars, layVars, linkVars, timVars, usbVars, logVars, kbVars, mxVars, pairVars>>

\* The run ends: the frame it read has been processed.
Finish ==
    /\ pc = "read"
    /\ rd = FRAME
    /\ frames' = Append(frames, [half |-> half, words |-> got])
    /\ pc' = "idle"
    /\ UNCHANGED <<consumer, isr, dmaPos, scanout, scans, half, rd, got,
                   entryHtif, cleared, fresh, late>>
    /\ UNCHANGED <<qdVars, layVars, linkVars, timVars, usbVars, logVars, kbVars, mxVars, pairVars>>

InitScan ==
    /\ InitBooted
    /\ consumer \in {"tick", "main"}
    /\ InitDma
    /\ InitTim
    /\ InitUsbIdle
    /\ InitLinkIdle
    /\ InitLayoutEngine
    /\ layers = LAYERS_A
    /\ InitDebouncer
    /\ now = u32_of(0)
    /\ timeout = 1

NextScan == Strobe \/ DmaWrite \/ Select \/ ClearFlags \/ ReadWord \/ Finish

SpecScan == InitScan /\ [][NextScan]_vars

\* ---------------------------------------------------------------------
\* USB half: handlers under priority scheduling, report and USB write
\* ---------------------------------------------------------------------
\* One layer of 1 row x 8 columns: columns 0..5 belong to the remote half,
\* columns 6.. to the local matrix (local column c is looked up at c + 6).
LAYERS_R ==
    << << << k("A"), k("LShift"), NoOp, NoOp, NoOp, NoOp, k("B"), k("A") >> >> >>

RemoteCoords == {<<0, 1>>}
LocalCols == 0..2
MaxFrameEvents == 2
MainCoords == {<<0, 0>>, <<1, 0>>, <<0, 1>>}

\* Mutant: the serial handler is given the priority of the USB handlers.
priority_uartHigh(h) ==
    CASE h = "usb_tx" -> 2
      [] h = "usb_rx" -> 2
      [] h = "uart_rx" -> 2
      [] h = "tick" -> 1

\* The priority argument of the #[task] attributes.
priority(h) ==
    CASE h = "usb_tx" -> 2
      [] h = "usb_rx" -> 2
      [] h = "uart_rx" -> 1
      [] h = "tick" -> 1

\* The handlers that name `keyboard` in their resources.
KeyboardUsers == {"uart_rx", "tick"}

\* Ceiling of the resource keyboard: the highest priority of its users.
ceiling_keyboard ==
    CHOOSE p \in {priority(h) : h \in KeyboardUsers} :
        \A h \in KeyboardUsers : priority(h) <= p

InStack(h) == \E i \in 1..Len(active) : active[i] = h
Running(h) == active # <<>> /\ active[Len(active)] = h
Leave == SubSeq(active, 1, Len(active) - 1)

\* Mutant: tick keeps usb_class locked over the whole write loop and runs
\* it at the ceiling of usb_class, the priority of the USB handlers.
CurrentPriority_lockHeld ==
    IF active = <<>> THEN 0
    ELSE LET h == active[Len(active)]
         IN  IF h = "tick" /\ tickPc = "write" THEN 2
             ELSE IF h = "tick" /\ tickPc = "events" /\ ceiling_keyboard > priority(h)
             THEN ceiling_keyboard
             ELSE priority(h)

\* The priority the processor runs at: that of the handler on top of the
\* stack, raised to the ceiling of keyboard while tick is inside
\* keyboard.lock (the event loop and the collection of the keycodes).
CurrentPriority ==
    IF active = <<>> THEN 0
    ELSE LET h == active[Len(active)]
         IN  IF h = "tick" /\ tickPc = "events" /\ ceiling_keyboard > priority(h)
             THEN ceiling_keyboard
             ELSE priority(h)

\* An interrupt is taken when its priority is above the current one.
CanStart(h) == ~halted /\ ~InStack(h) /\ priority(h) > CurrentPriority

\* Event::transform(|r, c| (r, c + 6))
transform(e) == [e EXCEPT !.coord = <<@[1], @[2] + 6>>]

\* The events keys_from_scan yields for the local columns whose key changed,
\* in ascending column order: Press for a key that was up, Release for one
\* that was down.
RECURSIVE frame_events(_)
frame_events(cols) ==
    IF cols = {} THEN <<>>
    ELSE LET c == CHOOSE x \in cols : \A y \in cols : x <= y
             e == IF <<0, c + 6>> \in held THEN Release(0, c) ELSE Press(0, c)
         IN  <<e>> \o frame_events(cols \ {c})

\* tick: entry, now = now.wrapping_add(1), and the frame's events.
TickEnter(cols) ==
    /\ consumer = "tick"
    /\ nframes < MaxFrames
    /\ tickPc = "idle"
    /\ CanStart("tick")
    /\ nevents + Cardinality(cols) <= MaxEvents
    /\ active' = Append(active, "tick")
    /\ nested' = (nested \/ InStack("uart_rx"))
    /\ tickPc' = "events"
    /\ pending' = frame_events(cols)
    /\ now' = u32_wrapping_add(now, u32_of(1))
    /\ nframes' = nframes + 1
    /\ frameEvents' = 0
    /\ sentBefore' = sent
    /\ writeCalls' = 0
    /\ retries' = 0
    /\ lastStep' = "tick"
    /\ UNCHANGED <<rxByte, report, devReport, epBusy, sent, polls, mixed, usbSnap>>
    /\ UNCHANGED <<cell, trig, timeout, log, sample, emitted, logged, prevCell,
                   prevTrig, ticks, edges, transitions, run, level>>
    /\ UNCHANGED <<layVars, linkVars, dmaVars, timVars, logVars, kbVars, mxVars, pairVars>>

\* tick: layout.event(event.transform(..)) for the next event of the frame.
TickEvent ==
    /\ Running("tick")
    /\ tickPc = "events"
    /\ pending # <<>>
    /\ Event(transform(Head(pending)))
    /\ pending' = Tail(pending)
    /\ frameEvents' = frameEvents + 1
    /\ lastStep' = "tick"
    /\ UNCHANGED <<active, tickPc, rxByte, report, devReport, epBusy, sent,
                   nframes, polls, retries, mixed, nested, usbSnap, sentBefore,
                   writeCalls>>
    /\ UNCHANGED <<linkVars, dmaVars, timVars, logVars, kbVars, mxVars, pairVars>>

\* tick: layout.keycodes().collect(), the end of keyboard.lock.
TickCollect ==
    /\ Running("tick")
    /\ tickPc = "events"
    /\ pending = <<>>
    /\ report' = KbHidReport_collect(keycodes(Self))
    /\ tickPc' = "set"
    /\ lastStep' = "tick"
    /\ UNCHANGED <<active, pending, rxByte, devReport, epBusy, sent, nframes,
                   polls, retries, frameEvents, mixed, nested, usbSnap,
                   sentBefore, writeCalls>>
    /\ UNCHANGED <<qdVars, layVars, linkVars, dmaVars, timVars, logVars, kbVars, mxVars, pairVars>>

\* tick: usb_class.lock(|k| k.device_mut().set_keyboard_report(report));
\* the handler returns when the report did not change.
TickSetReport ==
    /\ Running("tick")
    /\ tickPc = "set"
    /\ LET r == set_keyboard_report(devReport, report)
       IN  /\ devReport' = r.report
           /\ IF r.changed
              THEN tickPc' = "write" /\ active' = active
              ELSE tickPc' = "idle" /\ active' = Leave
    /\ lastStep' = "tick"
    /\ UNCHANGED <<pending, rxByte, report, epBusy, sent, nframes, polls,
                   retries, frameEvents, mixed, nested, usbSnap, sentBefore,
                   writeCalls>>
    /\ UNCHANGED <<qdVars, layVars, linkVars, dmaVars, timVars, logVars, kbVars, mxVars, pairVars>>

\* tick: one pass of while let Ok(0) = usb_class.lock(|k| k.write(..)) {}.
\* The passes are counted up to `most` retries.
TickWritePass(counted, most) ==
    /\ Running("tick")
    /\ tickPc = "write"
    /\ writeCalls' = IF counted \/ writeCalls <= most THEN writeCalls + 1 ELSE writeCalls
    /\ IF hid_write(epBusy) = 0
       THEN /\ counted => retries < most
            /\ retries' = IF retries < most THEN retries + 1 ELSE retries
            /\ UNCHANGED <<active, tickPc, epBusy, sent>>
       ELSE /\ sent' = report
            /\ epBusy' = TRUE
            /\ tickPc' = "idle"
            /\ active' = Leave
            /\ UNCHANGED retries
    /\ lastStep' = "tick"
    /\ UNCHANGED <<pending, rxByte, report, devReport, nframes, polls,
                   frameEvents, mixed, nested, usbSnap, sentBefore>>
    /\ UNCHANGED <<qdVars, layVars, linkVars, dmaVars, timVars, logVars, kbVars, mxVars, pairVars>>

\* A bounded number of passes.
TickWrite == TickWritePass(TRUE, MaxRetries)

\* uart_rx: entry and rx.lock(|rx| rx.read()) returning Ok(byte); the octet
\* is the frame the scanning half builds for a change of the key at c.
UartRxRead(c) ==
    /\ consumer = "tick"
    /\ CanStart("uart_rx")
    /\ rxByte = None
    /\ nevents + Len(pending) < MaxEvents
    /\ rxByte' = Some(pack(left_kevent(tree, IF c \in held
                                              THEN Release(c[1], c[2])
                                              ELSE Press(c[1], c[2]))))
    /\ active' = Append(active, "uart_rx")
    /\ nested' = (nested \/ InStack("tick"))
    /\ lastStep' = "uart_rx"
    /\ UNCHANGED <<tickPc, pending, report, devReport, epBusy, sent, nframes,
                   polls, retries, frameEvents, mixed, usbSnap, sentBefore,
                   writeCalls>>
    /\ UNCHANGED <<qdVars, layVars, linkVars, dmaVars, timVars, logVars, kbVars, mxVars, pairVars>>

\* uart_rx: unpack, keyboard.lock(|..| layout.event(event)), return.
UartRxApply ==
    /\ Running("uart_rx")
    /\ rxByte # None
    /\ Event(right_event(tree, unpack(rxByte[1])))
    /\ rxByte' = None
    /\ active' = Leave
    /\ mixed' = (mixed \/ (InStack("tick") /\ frameEvents > 0 /\ pending # <<>>))
    /\ lastStep' = "uart_rx"
    /\ UNCHANGED <<tickPc, pending, report, devReport, epBusy, sent, nframes,
                   polls, retries, frameEvents, nested, usbSnap, sentBefore,
                   writeCalls>>
    /\ UNCHANGED <<linkVars, dmaVars, timVars, logVars, kbVars, mxVars, pairVars>>

\* usb_tx / usb_rx: (usb_dev, usb_class).lock(usb_poll); the poll may
\* find the endpoint's transfer complete. The polls are counted up to
\* `most`.
UsbPoll(h, done, counted, most) ==
    /\ consumer = "tick"
    /\ counted => polls < most
    /\ CanStart(h)
    /\ epBusy' = (epBusy /\ ~done)
    /\ polls' = IF polls < most THEN polls + 1 ELSE polls
    /\ usbSnap' = <<LayoutSnapshot, cell, trig>>
    /\ lastStep' = h
    /\ UNCHANGED <<active, tickPc, pending, rxByte, report, devReport, sent,
                   nframes, retries, frameEvents, mixed, nested, sentBefore,
                   writeCalls>>
    /\ UNCHANGED <<qdVars, layVars, linkVars, dmaVars, timVars, logVars, kbVars, mxVars, pairVars>>

\* A bounded number of polls.
UsbIrq(h, done) == UsbPoll(h, done, TRUE, MaxPolls)

\* report(layout, &debouncer, token) of fw/src/scan.rs: the keycodes of the
\* pressed keys, column by column and row by row within a column.
scan_report(table, pressed) ==
    LET R == Len(table)
        C == Len(table[1])
        at == [n \in 1..(R * C) |-> <<(n - 1) % R, (n - 1) \div R>>]
        down == SelectSeq(at, LAMBDA c : c \in pressed)
    IN  KbHidReport_collect([i \in 1..Len(down) |->
                                table[down[i][1] + 1][down[i][2] + 1]])

\* One pass of the loop of fw/src/main.rs with a completed frame: the poll,
\* the tick count, the scan (the keys of `changed` change level), the report
\* and the write.
MainPass(changed, done) ==
    /\ consumer = "main"
    /\ nframes < MaxFrames
    /\ ~halted
    /\ now' = u32_wrapping_add(now, u32_of(1))
    /\ held' = (held \ changed) \cup (changed \ held)
    /\ report' = scan_report(FW_LAYERS, held')
    /\ sentBefore' = sent
    /\ writeCalls' = 1
    /\ IF hid_write(epBusy /\ ~done) = 0
       THEN UNCHANGED <<sent>> /\ epBusy' = TRUE
       ELSE sent' = report' /\ epBusy' = TRUE
    /\ nframes' = nframes + 1
    /\ lastStep' = "main"
    /\ UNCHANGED <<active, tickPc, pending, rxByte, devReport, polls, retries,
                   frameEvents, mixed, nested, usbSnap>>
    /\ UNCHANGED <<cell, trig, timeout, log, sample, emitted, logged, prevCell,
                   prevTrig, ticks, edges, transitions, run, level>>
    /\ UNCHANGED <<layers, default_layer, states, fw_states, lastEvent,
                   prevStates, prevFwStates, prevDefault, prevLayer, lookups,
                   nevents, dropped, scriptPos>>
    /\ UNCHANGED <<linkVars, dmaVars, timVars, logVars, kbVars, mxVars, pairVars>>

InitUsb ==
    /\ InitBooted
    /\ consumer \in {"tick", "main"}
    /\ InitDma
    /\ InitTim
    /\ InitUsbIdle
    /\ InitLayoutEngine
    /\ layers = LAYERS_R
    /\ InitDebouncer
    /\ now = u32_of(0)
    /\ timeout = 1
    /\ tree = "firmware"
    /\ wire = None
    /\ kevent = None
    /\ evSent = None
    /\ evRecv = None
    /\ nmsgs = 0
    /\ InitRx

NextUsb ==
    \/ \E cols \in SUBSET LocalCols :
          Cardinality(cols) <= MaxFrameEvents /\ TickEnter(cols)
    \/ TickEvent
    \/ TickCollect
    \/ TickSetReport
    \/ TickWrite
    \/ \E c \in RemoteCoords : UartRxRead(c)
    \/ UartRxApply
    \/ \E h \in {"usb_tx", "usb_rx"}, done \in BOOLEAN : UsbIrq(h, done)
    \/ \E changed \in SUBSET MainCoords, done \in BOOLEAN :
          Cardinality(changed) <= 1 /\ MainPass(changed, done)

SpecUsb == InitUsb /\ [][NextUsb]_vars

\* ---------------------------------------------------------------------
\* USB half: the write loop without a bound on its passes
\* ---------------------------------------------------------------------
\* One pass of the write loop, any number of times.
TickSpin == TickWritePass(FALSE, MaxRetries)

\* A USB interrupt whose poll finds the transfer of the endpoint complete,
\* and one whose poll does not; any number of times.
UsbFree(h) == UsbPoll(h, TRUE, FALSE, MaxPolls)
UsbBusy(h) == UsbPoll(h, FALSE, FALSE, MaxPolls)

UsbHandlers == {"usb_tx", "usb_rx"}

InitUsbLive == InitUsb /\ consumer = "tick"

\* A frame changes at most one local key.
NextUsbLive ==
    \/ \E cols \in SUBSET LocalCols :
          Cardinality(cols) <= 1 /\ TickEnter(cols)
    \/ TickEvent
    \/ TickCollect
    \/ TickSetReport
    \/ TickSpin
    \/ \E c \in RemoteCoords : UartRxRead(c)
    \/ UartRxApply
    \/ \E h \in UsbHandlers : UsbFree(h)
    \/ \E h \in UsbHandlers : UsbBusy(h)

\* tick runs on when nothing preempts it, and the USB interrupt that ends
\* the transfer of the endpoint is taken when it can be.
SpecUsbLive ==
    /\ InitUsbLive
    /\ [][NextUsbLive]_vars
    /\ WF_vars(TickSpin)
    /\ WF_vars(\E h \in UsbHandlers : UsbFree(h))

\* The same without the assumption on the USB interrupts.
SpecUsbStarved ==
    /\ InitUsbLive
    /\ [][NextUsbLive]_vars
    /\ WF_vars(TickSpin)

\* ---------------------------------------------------------------------
\* Log ring: writer and out-of-band reader
\* ---------------------------------------------------------------------
\* The n-th record given to the ring: the tick of the write as timestamp.
Record(n, row) == KeyState(u32_of(n), row, n % FRAME, "BouncingUD", "None")

\* Mutant: the reader copies the body from index 0.
slurp_index_linear(head_val, size, i) == i

\* state-slurp: the i-th index (from 0) of (head_val..size).chain(0..head_val).
slurp_index(head_val, size, i) ==
    IF head_val + i < size THEN head_val + i ELSE i - (size - head_val)

\* state-slurp: the records in the order they are printed.
slurp(self) ==
    [i \in 1..LOG_SIZE |-> body_at(self, slurp_index(self.head, LOG_SIZE, i - 1))]

\* scan: log.log(KeyState { .. }) for one record.
LogWrite(row) ==
    /\ Booted
    /\ Len(written) < MaxWrites
    /\ Len(written) >= 1 => row = 0
    /\ LET elem == Record(Len(written) + 1, row)
       IN  /\ log' = log_log(log, elem)
           /\ written' = Append(written, elem)
    /\ UNCHANGED <<cell, trig, now, timeout, sample, emitted, logged, prevCell,
                   prevTrig, ticks, edges, transitions, run, level>>
    /\ UNCHANGED <<layVars, linkVars, dmaVars, timVars, usbVars, bootVars, reader, kbVars, mxVars, pairVars>>

InitLog ==
    /\ InitBooted
    /\ InitDmaIdle
    /\ InitLinkIdle
    /\ InitLayoutEngine
    /\ layers = LAYERS_A
    /\ InitDebouncer
    /\ now = u32_of(0)
    /\ timeout = 1

NextLog == \E row \in 0..1 : LogWrite(row)

SpecLog == InitLog /\ [][NextLog]_vars

\* ---------------------------------------------------------------------
\* Log ring: state-slurp reading while the firmware runs
\* ---------------------------------------------------------------------
\* Records given to the log while the body is copied.
MaxCopyWrites == 2

\* The numbers of records written when state-slurp attaches: an empty
\* ring, a ring in its first lap, one about to wrap and one that wrapped.
SlurpStarts == {0, 2, LOG_SIZE - 1, LOG_SIZE + 2}

\* core.read_word_32(head): head_val, read first.
SlurpHead ==
    /\ reader.pc = "idle"
    /\ Len(written) \in SlurpStarts
    /\ log.head < LOG_SIZE
    /\ reader' = [pc |-> "copy", head_val |-> log.head, pos |-> 0, buf |-> <<>>,
                  n0 |-> Len(written)]
    /\ UNCHANGED <<qdVars, layVars, linkVars, dmaVars, timVars, usbVars, bootVars,
                   written, kbVars, mxVars, pairVars>>

\* The positions at which a burst of the copy may end: around the slot
\* head_val, and the end of the body.
SlurpStops(r) ==
    {u \in {r.head_val, r.head_val + 1, r.head_val + 2, LOG_SIZE} :
        r.pos < u /\ u <= LOG_SIZE}

\* core.read_32(body, &mut buf): the records are copied in address order;
\* one burst copies the slots from pos up to `upto` as they are now.
SlurpCopy(upto) ==
    /\ reader.pc = "copy"
    /\ upto \in SlurpStops(reader)
    /\ reader' = [reader EXCEPT
                     !.buf = @ \o [i \in 1..(upto - reader.pos) |->
                                      body_at(log, reader.pos + i - 1)],
                     !.pos = upto,
                     !.pc = IF upto = LOG_SIZE THEN "done" ELSE "copy"]
    /\ UNCHANGED <<qdVars, layVars, linkVars, dmaVars, timVars, usbVars, bootVars,
                   written, kbVars, mxVars, pairVars>>

\* event_at(&buf, i) for i in (head_val..size).chain(0..head_val): the
\* records in the order state-slurp prints them.
slurp_out(r) ==
    [i \in 1..LOG_SIZE |-> r.buf[slurp_index(r.head_val, LOG_SIZE, i - 1) + 1]]

\* The firmware logs a record: at any time before state-slurp is done, a
\* few of them while the body is copied.
SlurpLogWrite(row) ==
    /\ reader.pc # "done"
    /\ reader.pc = "copy" => Len(written) - reader.n0 < MaxCopyWrites
    /\ LogWrite(row)

NextSlurp ==
    \/ \E row \in 0..1 : SlurpLogWrite(row)
    \/ SlurpHead
    \/ \E upto \in 1..LOG_SIZE : SlurpCopy(upto)

SpecSlurp == InitLog /\ [][NextSlurp]_vars

\* ---------------------------------------------------------------------
\* Tick-driven layout: event(), tick(), hold-tap, MultipleActions, Custom
\* (the Layout the tests of firmware/keyberon/src/layout.rs exercise)
\* ---------------------------------------------------------------------
\* CustomEvent::update: a Press always replaces, a Release replaces NoEvent.
CustomEvent_update(self, e) ==
    IF e.kind = "Press" \/ (e.kind = "Release" /\ self.kind = "NoEvent")
    THEN e ELSE self

\* The CustomEvent of releasing coord c: Release(value) of a Custom state
\* at c, NoEvent when there is none.
RECURSIVE release_custom(_, _, _)
release_custom(sts, c, ev) ==
    IF sts = <<>> THEN ev
    ELSE LET s == Head(sts)
         IN  release_custom(Tail(sts), c,
                 IF s.tag = "Custom" /\ s.coord = c
                 THEN CustomEvent_update(ev, CustomRelease(s.value))
                 ELSE ev)

WaitingState(coord, t, delay, hold, tap) ==
    [coord |-> coord, timeout |-> t, delay |-> delay, hold |-> hold, tap |-> tap]

RECURSIVE kb_do_action(_, _, _, _)
RECURSIVE kb_do_actions(_, _, _, _, _)

\* Layout::do_action(action, coord, delay): the layout afterwards and the
\* CustomEvent to report.
kb_do_action(self, action, coord, delay) ==
    CASE action.tag = "HoldTap" ->
            [kb |-> [self EXCEPT !.waiting =
                        Some(WaitingState(coord, action.timeout, delay,
                                          action.hold, action.tap))],
             custom |-> NoEvent]
      [] action.tag = "MultipleActions" ->
            kb_do_actions(self, action.actions, coord, delay, NoEvent)
      [] action.tag = "Custom" ->
            IF Len(self.states) < CAPACITY
            THEN [kb |-> [self EXCEPT !.states =
                             push(@, CustomState(action.value, coord))],
                  custom |-> CustomPress(action.value)]
            ELSE [kb |-> self, custom |-> NoEvent]
      [] OTHER -> [kb |-> do_action(self, action, coord), custom |-> NoEvent]

\* Mutant: only the first sub-action is executed.
kb_do_actions_firstOnly(self, as, coord, delay, ev) ==
    IF as = <<>> THEN [kb |-> self, custom |-> ev]
    ELSE LET r == kb_do_action(self, Head(as), coord, delay)
         IN  [kb |-> r.kb, custom |-> CustomEvent_update(ev, r.custom)]

\* MultipleActions(v): for action in v { custom.update(do_action(..)) }
kb_do_actions(self, as, coord, delay, ev) ==
    IF as = <<>> THEN [kb |-> self, custom |-> ev]
    ELSE LET r == kb_do_action(self, Head(as), coord, delay)
         IN  kb_do_actions(r.kb, Tail(as), coord, delay,
                           CustomEvent_update(ev, r.custom))

Stacked(event) == [event |-> event, since |-> 0]

\* Mutant: a release never reports a CustomEvent.
kb_unstack_silent(self, st) ==
    IF st.event.kind = "Release"
    THEN [kb |-> unstack(self, st.event), custom |-> NoEvent]
    ELSE kb_do_action(self,
             press_as_action(self, st.event.coord, current_layer(self)).action,
             st.event.coord, st.since)

\* Layout::unstack(stacked): a Release drops the states of its coord and
\* reports the Release of a Custom state among them; a Press runs the
\* action of the current layer with the time the event spent queued.
kb_unstack(self, st) ==
    IF st.event.kind = "Release"
    THEN [kb |-> unstack(self, st.event),
          custom |-> release_custom(self.states, st.event.coord, NoEvent)]
    ELSE kb_do_action(self,
             press_as_action(self, st.event.coord, current_layer(self)).action,
             st.event.coord, st.since)

\* Layout::event: the event is queued; tick() applies it.
kb_event(self, e) == [self EXCEPT !.stacked = Append(@, Stacked(e))]

\* The first queued Release of coord c, as an Option of its `since`.
RECURSIVE corresponding_release(_, _)
corresponding_release(stk, c) ==
    IF stk = <<>> THEN None
    ELSE IF Head(stk).event = [kind |-> "Release", coord |-> c]
         THEN Some(Head(stk).since)
         ELSE corresponding_release(Tail(stk), c)

saturating_dec(n) == IF n > 0 THEN n - 1 ELSE 0

\* Mutant: any queued release is a tap, however late it came.
waiting_tick_anyRelease(w, stk) ==
    LET rel == corresponding_release(stk, w.coord)
    IN  IF rel # None THEN "Tap"
        ELSE IF saturating_dec(w.timeout) = 0 THEN "Hold" ELSE "NoOp"

\* WaitingState::tick with HoldTapConfig::Default, after timeout has been
\* decremented: a queued release of the key is a tap when the key was down
\* for at most `timeout` ticks (delay = ticks the press spent queued, since
\* = ticks the release spent queued so far); without a release the key is
\* a hold once the timeout has run out.
waiting_tick(w, stk) ==
    LET rel == corresponding_release(stk, w.coord)
        t == saturating_dec(w.timeout)
    IN  IF rel # None
        THEN IF t + rel[1] >= w.delay THEN "Tap" ELSE "Hold"
        ELSE IF t = 0 THEN "Hold" ELSE "NoOp"

\* waiting_into_hold / waiting_into_tap: the waiting key becomes its hold
\* or tap action, executed at its coord with no delay.
waiting_into(self, which) ==
    LET w == self.waiting[1]
    IN  kb_do_action([self EXCEPT !.waiting = None],
                     IF which = "Hold" THEN w.hold ELSE w.tap, w.coord, 0)

\* Layout::tick: every queued event ages by one tick; then either the
\* waiting key is looked at, or one event leaves the queue and is applied.
kb_tick(self) ==
    LET stk == [i \in 1..Len(self.stacked) |->
                   [self.stacked[i] EXCEPT !.since = @ + 1]]
        aged == [self EXCEPT !.stacked = stk]
    IN  IF self.waiting # None
        THEN LET wa == waiting_tick(self.waiting[1], stk)
                 w2 == [aged EXCEPT !.waiting =
                           Some([@[1] EXCEPT !.timeout = saturating_dec(@)])]
             IN  IF wa = "NoOp"
                 THEN [kb |-> w2, custom |-> NoEvent, did |-> "wait"]
                 ELSE LET r == waiting_into(w2, wa)
                      IN  [kb |-> r.kb, custom |-> r.custom,
                           did |-> IF wa = "Hold" THEN "hold" ELSE "tap"]
        ELSE IF stk = <<>>
             THEN [kb |-> aged, custom |-> NoEvent, did |-> "idle"]
             ELSE LET r == kb_unstack([aged EXCEPT !.stacked = Tail(stk)],
                                      Head(stk))
                  IN  [kb |-> r.kb, custom |-> r.custom, did |-> "unstack"]

\* layout.event(e): keys alternate between Press and Release.
KbEvent(e) ==
    /\ Len(given) < MaxKbEvents
    /\ IF e.kind = "Press" THEN e.coord \notin kheld ELSE e.coord \in kheld
    /\ kheld' = IF e.kind = "Press" THEN kheld \cup {e.coord}
                ELSE kheld \ {e.coord}
    /\ kb' = kb_event(kb, e)
    /\ given' = Append(given, [event |-> e, at |-> kticks])
    /\ did' = "event"
    /\ appliedBefore' = Len(applied)
    /\ UNCHANGED <<custom, kticks, applied, resolved>>
    /\ UNCHANGED <<qdVars, layVars, linkVars, dmaVars, timVars, usbVars, logVars, mxVars, pairVars>>

\* layout.tick()
KbTick ==
    /\ kticks < MaxKbTicks
    /\ LET r == kb_tick(kb)
       IN  /\ kb' = r.kb
           /\ custom' = r.custom
           /\ did' = r.did
           /\ applied' = IF r.did = "unstack"
                         THEN Append(applied, Head(kb.stacked).event)
                         ELSE applied
           /\ resolved' = IF r.did \in {"hold", "tap"}
                          THEN Some([coord |-> kb.waiting[1].coord,
                                     how |-> r.did,
                                     at |-> kticks + 1,
                                     press |-> Len(applied)])
                          ELSE resolved
    /\ kticks' = kticks + 1
    /\ appliedBefore' = Len(applied)
    /\ UNCHANGED <<given, kheld>>
    /\ UNCHANGED <<qdVars, layVars, linkVars, dmaVars, timVars, usbVars, logVars, mxVars, pairVars>>

InitTick ==
    /\ InitBooted
    /\ consumer = "tick" /\ InitDma /\ InitTim
    /\ InitUsbClass
    /\ InitLinkIdle
    /\ InitLayoutEngine
    /\ layers = LAYERS_A
    /\ InitDebouncer
    /\ now = u32_of(0)
    /\ timeout = 1
    /\ \E table \in KbTables : InitKb(table)
    /\ InitMatrix

NextTick ==
    \/ \E c \in KbCoords : KbEvent(Press(c[1], c[2]))
    \/ \E c \in KbCoords : KbEvent(Release(c[1], c[2]))
    \/ KbTick

SpecTick == InitTick /\ [][NextTick]_vars

\* ---------------------------------------------------------------------
\* One half's matrix: keys_from_scan, scan, report, single-layer layout
\* ---------------------------------------------------------------------
\* (word & (1 << n)) != 0
word_bit(word, n) == (word \div (2 ^ n)) % 2 = 1

\* KeyScanIter as keys_from_scan builds it.
KeyScanIter(trigs) ==
    [triggers |-> trigs, row |-> 0, col |-> 0, row_val |-> 0, steps |-> <<>>]

\* Mutant: the word of the column is read again for every row, shifted by
\* the rows already done.
KeyScanIter_next_shifted(it, scanout_half, tnow, T) ==
    LET press == word_bit(scanout_half[it.col] \div (2 ^ it.row), it.row)
        r == step(it.triggers[<<it.row, it.col>>], press, tnow, T)
    IN  [it |-> [it EXCEPT !.row = @ + 1,
                           !.triggers[<<it.row, it.col>>] = r.next,
                           !.steps = Append(@, [coord |-> <<it.row, it.col>>,
                                                sample |-> press, tnow |-> tnow])],
         event |-> IF r.event = None THEN None
                   ELSE Some([kind |-> IF r.event[1] THEN "Press" ELSE "Release",
                              coord |-> <<it.row, it.col>>])]

\* The body of KeyScanIter::next's inner loop for the cell (row, col): the
\* word of the column is read when row = 0, the cell is stepped with bit
\* `row` of it, row advances.
KeyScanIter_step(it, scanout_half, tnow, T) ==
    LET row_val == IF it.row = 0 THEN scanout_half[it.col] ELSE it.row_val
        press == word_bit(row_val, it.row)
        r == step(it.triggers[<<it.row, it.col>>], press, tnow, T)
    IN  [it |-> [it EXCEPT !.row = @ + 1,
                           !.row_val = row_val,
                           !.triggers[<<it.row, it.col>>] = r.next,
                           !.steps = Append(@, [coord |-> <<it.row, it.col>>,
                                                sample |-> press, tnow |-> tnow])],
         event |-> IF r.event = None THEN None
                   ELSE Some([kind |-> IF r.event[1] THEN "Press" ELSE "Release",
                              coord |-> <<it.row, it.col>>])]

\* KeyScanIter::next: the next event, None (with col reset) at the end.
RECURSIVE KeyScanIter_next(_, _, _, _)
KeyScanIter_next(it, scanout_half, tnow, T) ==
    IF it.col \notin MxCols
    THEN [it |-> [it EXCEPT !.col = 0], event |-> None]
    ELSE IF it.row \in MxRows
    THEN LET r == KeyScanIter_step(it, scanout_half, tnow, T)
         IN  IF r.event # None THEN r
             ELSE KeyScanIter_next(r.it, scanout_half, tnow, T)
    ELSE KeyScanIter_next([it EXCEPT !.col = @ + 1, !.row = 0], scanout_half, tnow, T)

\* `for event in keys_from_scan(..)`: next() until it returns None.
RECURSIVE keys_from_scan(_, _, _, _)
keys_from_scan(it, scanout_half, tnow, T) ==
    LET r == KeyScanIter_next(it, scanout_half, tnow, T)
    IN  IF r.event = None THEN [it |-> r.it, events |-> <<>>]
        ELSE LET rest == keys_from_scan(r.it, scanout_half, tnow, T)
             IN  [it |-> rest.it, events |-> <<r.event[1]>> \o rest.events]

\* The single-layer layout of fw/src/bin/right.rs: 8 columns, the local
\* half on columns 6 and 7; a cell without keycode and a keycode that two
\* keys share.
MX_LAYOUT ==
    << << "No", "No", "No", "No", "No", "No", "A", "LShift" >>,
       << "No", "No", "No", "No", "No", "No", "No", "A" >> >>

\* event.coord.1 += 6
mx_transform(e) == [e EXCEPT !.coord = <<@[1], @[2] + 6>>]

\* for event in ..: layout.event(event), on the single-layer layout.
RECURSIVE mx_events(_, _)
mx_events(sts, evs) ==
    IF evs = <<>> THEN sts
    ELSE mx_events(fw_event(MX_LAYOUT, sts, mx_transform(Head(evs))), Tail(evs))

\* The cells in the order scan and report visit them: column by column,
\* row by row within a column.
MxOrder ==
    [n \in 1..Cardinality(MxCoords) |->
        <<(n - 1) % Cardinality(MxRows), (n - 1) \div Cardinality(MxRows)>>]

\* Mutant: the row bit is taken without the offset of the row pins.
fw_scan_bit0(scanout_half, trigs, timestamp, T) ==
    [c \in MxCoords |->
        trigger_step(trigs[c], word_bit(scanout_half[c[2]], c[1]), as_u8(timestamp), T)]

\* scan of fw/src/scan.rs on the triggers: every cell is stepped with bit
\* row + 3 of the word of its column.
fw_scan(scanout_half, trigs, timestamp, T) ==
    [c \in MxCoords |->
        trigger_step(trigs[c], word_bit(scanout_half[c[2]], c[1] + 3), as_u8(timestamp), T)]

\* report of fw/src/scan.rs: the keycodes given to rep.pressed, in order.
mx_report(trigs) ==
    LET down == SelectSeq(MxOrder, LAMBDA c : is_pressed(trigs[c]))
    IN  [i \in 1..Len(down) |-> MX_LAYOUT[down[i][1] + 1][down[i][2] + 6 + 1]]

\* The words the scan leaves for one frame: bit `row` of a u8 word (bit
\* row + 3 of a u16 word of the port) is set when the key is closed; the
\* other bits are whatever the port reads.
u8_half(w, junk) == [c \in MxCols |-> w[c] + (IF junk THEN 4 ELSE 0)]
u16_half(w, junk) == [c \in MxCols |-> 8 * w[c] + (IF junk THEN 5 ELSE 0)]

\* One scan frame on the USB half: the tick counter, the events of the
\* frame applied to the layout, the report handed to the USB class and
\* written when it changed (the endpoint is free: no transfer is pending),
\* and the level-driven scan and report of the same frame.
MxFrame(w, junk) ==
    /\ mframes < MaxMxFrames
    /\ LET n == u32_wrapping_add(now, u32_of(1))
           r == keys_from_scan(KeyScanIter(triggers), u8_half(w, junk), n, timeout)
           f == fw_scan(u16_half(w, junk), fwtriggers, n, timeout)
       IN  /\ now' = n
           /\ triggers' = r.it.triggers
           /\ stepLog' = r.it.steps
           /\ mevents' = r.events
           /\ mstates' = mx_events(mstates, r.events)
           /\ fwtriggers' = f
           /\ mreport' = mx_report(f)
           /\ report' = KbHidReport_collect(fw_keycodes(mx_events(mstates, r.events)))
    /\ LET sr == set_keyboard_report(devReport, report')
       IN  /\ devReport' = sr.report
           /\ sentBefore' = sent
           /\ writeCalls' = IF sr.changed THEN 1 ELSE 0
           /\ sent' = IF sr.changed /\ hid_write(epBusy) # 0 THEN report' ELSE sent
    /\ UNCHANGED <<active, tickPc, pending, rxByte, epBusy, nframes, polls,
                   retries, frameEvents, mixed, nested, usbSnap, lastStep>>
    /\ scanhalf' = u8_half(w, junk)
    /\ prevTriggers' = triggers
    /\ nowBefore' = now
    /\ mframes' = mframes + 1
    /\ UNCHANGED <<cell, trig, timeout, log, sample, emitted, logged, prevCell,
                   prevTrig, ticks, edges, transitions, run, level>>
    /\ UNCHANGED <<layVars, linkVars, dmaVars, timVars, logVars, kbVars, pairVars>>

InitMx ==
    /\ InitBooted
    /\ InitDmaIdle
    /\ InitLinkIdle
    /\ InitLayoutEngine
    /\ layers = LAYERS_A
    /\ InitDebouncer
    /\ now = <<HALF - 1, HALF - 3>>
    /\ timeout \in 1..2

\* The bits outside the rows are set in every other frame.
NextMx == \E w \in [MxCols -> 0..3] : MxFrame(w, mframes % 2 = 1)

SpecMx == InitMx /\ [][NextMx]_vars

\* ---------------------------------------------------------------------
\* The two halves end to end: scanning half, serial line, USB half
\* ---------------------------------------------------------------------
\* Tx::write of the HAL: WouldBlock while the transmit data register still
\* holds an octet (TXE clear); otherwise the octet is taken, and moves on to
\* the shift register at once when the line is idle.
tx_write(dr, sr, byte) ==
    IF dr # None THEN [ok |-> FALSE, tdr |-> dr, txsr |-> sr]
    ELSE IF sr = None THEN [ok |-> TRUE, tdr |-> None, txsr |-> Some(byte)]
    ELSE [ok |-> TRUE, tdr |-> Some(byte), txsr |-> sr]

\* The write of the scanning half's loop: src/bin/left.rs unwraps the
\* result of tx.write (a panic on WouldBlock), fw/src/bin/left.rs waits in
\* block! until the octet is taken.
left_write(t, dr, sr, byte) ==
    LET w == tx_write(dr, sr, byte)
    IN  w @@ [blocked |-> ~w.ok /\ t # "src", panic |-> ~w.ok /\ t = "src"]

\* The kind of the last event of coord c in evs ("Release" when none).
RECURSIVE last_kind(_, _)
last_kind(evs, c) ==
    IF evs = <<>> THEN "Release"
    ELSE IF evs[Len(evs)].coord = c THEN evs[Len(evs)].kind
    ELSE last_kind(SubSeq(evs, 1, Len(evs) - 1), c)

\* The event a key yields next: its edges alternate, starting with Press.
next_edge(evs, c) ==
    [kind |-> IF last_kind(evs, c) = "Press" THEN "Release" ELSE "Press",
     coord |-> c]

\* Scan order of two coords: ascending column, then ascending row.
scan_before(a, b) == a[2] < b[2] \/ (a[2] = b[2] /\ a[1] < b[1])

PairCoords == {<<0, 0>>, <<5, 3>>, <<7, 7>>}

\* The coords of the keys that change in one frame, in scan order.
FrameCoords ==
    {q \in UNION {[1..n -> PairCoords] : n \in 1..3} :
        \A i \in 1..(Len(q) - 1) : scan_before(q[i], q[i + 1])}

\* tick of the scanning half: the frame's events wait for the loop. The
\* first event of a run comes from any key a frame can name.
LeftFrame(q) ==
    /\ ~lhalted
    /\ txQueue = <<>>
    /\ q \in FrameCoords \/ produced = <<>>
    /\ Len(produced) + Len(q) <= MaxLinkEvents
    /\ txQueue' = [i \in 1..Len(q) |-> next_edge(produced, q[i])]
    /\ UNCHANGED <<produced, appliedLog, tdr, txsr, rdr, ore, lhalted>>
    /\ UNCHANGED <<qdVars, layVars, linkVars, dmaVars, timVars, usbVars, logVars,
                   kbVars, mxVars>>

\* One iteration of the loop of the scanning half: the debouncer yields
\* the event, it is packed and written to the transmitter.
LeftSend ==
    /\ ~lhalted
    /\ txQueue # <<>>
    /\ LET e == Head(txQueue)
           w == left_write(tree, tdr, txsr, pack(left_kevent(tree, e)))
       IN  /\ ~w.blocked
           /\ produced' = Append(produced, e)
           /\ tdr' = w.tdr
           /\ txsr' = w.txsr
           /\ lhalted' = w.panic
           /\ txQueue' = IF w.panic THEN <<>> ELSE Tail(txQueue)
    /\ UNCHANGED <<appliedLog, rdr, ore>>
    /\ UNCHANGED <<qdVars, layVars, linkVars, dmaVars, timVars, usbVars, logVars,
                   kbVars, mxVars>>

\* The serial hardware: the octet in the shift register has been sent and
\* arrives in the receive data register (an overrun when the previous octet
\* is still there); the transmitter goes on with the octet waiting.
TxDone ==
    /\ txsr # None
    /\ rdr' = IF rdr = None THEN txsr ELSE rdr
    /\ ore' = (ore \/ rdr # None)
    /\ txsr' = tdr
    /\ tdr' = None
    /\ UNCHANGED <<produced, appliedLog, txQueue, lhalted>>
    /\ UNCHANGED <<qdVars, layVars, linkVars, dmaVars, timVars, usbVars, logVars,
                   kbVars, mxVars>>

\* uart_rx of the USB half on a received octet: rx.read() returns the
\* octet, which is unpacked and given to the layout, or Err(Overrun).
RightRx ==
    /\ ~halted
    /\ rdr # None
    /\ rdr' = None
    /\ ore' = FALSE
    /\ rxBefore' = LayoutSnapshot
    /\ IF ore
       THEN /\ halted' = (uart_rx_err(tree, "Overrun") = "panic")
            /\ lastRx' = "Overrun"
            /\ UNCHANGED <<appliedLog, layVars, qdVars>>
       ELSE /\ LET event == right_event(tree, unpack(rdr[1]))
               IN  /\ appliedLog' = Append(appliedLog, event)
                   /\ Event(event)
            /\ lastRx' = "Ok"
            /\ UNCHANGED halted
    /\ UNCHANGED <<tree, wire, kevent, evSent, evRecv, nmsgs>>
    /\ UNCHANGED <<produced, txQueue, tdr, txsr, lhalted>>
    /\ UNCHANGED <<dmaVars, timVars, usbVars, logVars, kbVars, mxVars>>

InitPair ==
    /\ InitBooted
    /\ InitDmaIdle
    /\ InitLayoutEngine
    /\ layers = LAYERS_A
    /\ InitDebouncer
    /\ now = u32_of(0)
    /\ timeout = 1
    /\ tree \in {"src", "fw"}
    /\ wire = None
    /\ kevent = None
    /\ evSent = None
    /\ evRecv = None
    /\ nmsgs = 0
    /\ InitRx

NextPair ==
    \/ \E q \in FrameCoords \cup {<<c>> : c \in WireCoords} : LeftFrame(q)
    \/ LeftSend
    \/ TxDone
    \/ RightRx

SpecPair == InitPair /\ [][NextPair]_vars

\* ---------------------------------------------------------------------
\* Properties of the debouncer (checked under SpecQD)
\* ---------------------------------------------------------------------
\* Ticks elapsed between `since` of the cell before the last step and now.
Elapsed(c) == u32_wrapping_sub(now, c.since)
WindowReached(c) == ~u32_lt(Elapsed(c), u32_of(timeout))

\* C1: a step on a cell in Stable(N) with a sample equal to N leaves the
\* cell in Stable(N) and emits nothing; a sample !N moves the cell to
\* Bouncing{prior: N, current: !N, since: now} and emits the edge !N in that
\* same step. Before any step the cell is Stable(Up).
C1_StableStep ==
    /\ ticks = 0 => cell = Stable(Up)
    /\ (ticks > 0 /\ prevCell.tag = "Stable") =>
          IF sample = prevCell.value
          THEN cell = prevCell /\ emitted = None
          ELSE /\ cell = Bouncing(prevCell.value, ~prevCell.value, now)
               /\ emitted = Some(~prevCell.value)

\* A release edge emitted on leaving Stable(Down).
C1_Witness ==
    /\ ticks > 0
    /\ prevCell = Stable(Down)
    /\ sample = Up
    /\ emitted = Some(Up)
    /\ cell.tag = "Bouncing"

\* C2: a step on Bouncing{prior: P, current: C, since: s} with sample = C
\* and (now - s) >= T moves the cell to Stable(C); it emits C if and only if
\* C = P, and nothing when C # P.
C2_Stabilise ==
    (/\ ticks > 0
     /\ prevCell.tag = "Bouncing"
     /\ sample = prevCell.current
     /\ WindowReached(prevCell)) =>
        /\ cell = Stable(prevCell.current)
        /\ emitted = IF prevCell.current = prevCell.prior
                     THEN Some(prevCell.current)
                     ELSE None

\* The key bounced back to its prior level: the speculative press is
\* cancelled by a release on stabilisation.
C2_Witness ==
    /\ ticks > 0
    /\ prevCell.tag = "Bouncing"
    /\ prevCell.prior = Up
    /\ prevCell.current = Up
    /\ cell = Stable(Up)
    /\ emitted = Some(Up)

\* C3: while a cell is Bouncing, a sample different from `current` only
\* replaces `current` by the sample and resets `since` to now (prior kept,
\* no edge); a sample equal to `current` before the window has elapsed leaves
\* the cell unchanged and emits nothing. Hence a step that starts and ends in
\* Bouncing never emits an edge, and in the level-based variant it never
\* changes is_pressed() nor logs a Press/Release.
C3_BouncingQuiet ==
    /\ (ticks > 0 /\ prevCell.tag = "Bouncing" /\ sample # prevCell.current) =>
          /\ cell = Bouncing(prevCell.prior, sample, now)
          /\ emitted = None
    /\ (/\ ticks > 0
        /\ prevCell.tag = "Bouncing"
        /\ sample = prevCell.current
        /\ ~WindowReached(prevCell)) =>
          /\ cell = prevCell
          /\ emitted = None
    /\ (ticks > 0 /\ prevCell.tag = "Bouncing" /\ cell.tag = "Bouncing") =>
          emitted = None
    /\ (ticks > 0 /\ prevTrig.tag = "Bouncing" /\ trig.tag = "Bouncing") =>
          /\ trig.prior = prevTrig.prior
          /\ is_pressed(trig) = is_pressed(prevTrig)
          /\ logged # None => logged[1].event = "None"
          /\ sample # prevTrig.current =>
                trig = Bouncing(prevTrig.prior, sample, as_u8(now))

\* A bounce inside Bouncing after the tick counter wrapped.
C3_Witness ==
    /\ ticks > 0
    /\ prevCell.tag = "Bouncing"
    /\ sample # prevCell.current
    /\ cell.tag = "Bouncing"
    /\ cell.since = u32_of(1)
    /\ edges = 1

\* C4 as stated: after a suffix of at least T consecutive equal samples M
\* the cell is in Stable(M) and the net effect of the emitted edges is the
\* level M.
C4_Original ==
    (ticks > 0 /\ run >= timeout) =>
        /\ cell = Stable(sample)
        /\ level = sample
        /\ (edges % 2 = 1) = sample

\* C4 (amended): after a suffix of at least T + 1 consecutive equal samples
\* M (one per tick) the cell is in Stable(M); the last emitted edge is M and
\* the number of emitted edges is even when M = Up (the level at the start)
\* and odd when M = Down. Whenever the cell is in Stable(X) the same holds of
\* X, so the net effect between any Stable(N) and the final Stable(M) is
\* nothing when M = N and the single change N -> M otherwise.
C4_SettlesAfterWindow ==
    /\ (ticks > 0 /\ run >= timeout + 1) => cell = Stable(sample)
    /\ cell.tag = "Stable" =>
          /\ level = cell.value
          /\ (edges % 2 = 1) = cell.value

\* The key bounced, then settled Down after exactly T + 1 equal samples.
C4_Witness ==
    /\ run = timeout + 1
    /\ prevCell.tag = "Bouncing"
    /\ cell = Stable(Down)
    /\ transitions >= 3
    /\ edges = 1

\* C5: the number of edges emitted by step never exceeds the number of raw
\* sample transitions (the sample before the first one being Up).
C5_EdgesAtMostTransitions == edges <= transitions

\* Bounces were filtered: several edges, and more transitions than edges.
C5_Witness ==
    /\ edges >= 2
    /\ transitions > edges

\* The two kinds of step that report an edge.
EdgeStep(old, new) ==
    \/ old.tag = "Stable" /\ new.tag = "Bouncing"
    \/ old.tag = "Bouncing" /\ old.prior = old.current /\ new.tag = "Stable"

\* C6: a step emits an edge if and only if it is a Stable -> Bouncing
\* transition or a Bouncing(N,N) -> Stable(N) transition. The logging scanner
\* writes a record exactly when the cell changed; its event is Press or
\* Release (the new level) on those two kinds of transition and None on
\* every other state change.
C6_EdgesMatchTransitions ==
    ticks > 0 =>
        /\ (emitted # None) <=> EdgeStep(prevCell, cell)
        /\ (logged # None) <=> (trig # prevTrig)
        /\ logged # None =>
              /\ logged[1].deb = state_name(trig)
              /\ (logged[1].event # "None") <=> EdgeStep(prevTrig, trig)
              /\ logged[1].event = "Press" =>
                    EdgeStep(prevTrig, trig) /\ is_pressed(trig)
              /\ logged[1].event = "Release" =>
                    EdgeStep(prevTrig, trig) /\ ~is_pressed(trig)

\* The scanner logged the cancelling Release of a Bouncing(U,U) -> Stable(U)
\* step, while the edge-emitting debouncer emitted it.
C6_Witness ==
    /\ ticks > 0
    /\ prevTrig.tag = "Bouncing"
    /\ trig = Stable(Up)
    /\ logged # None
    /\ logged[1].event = "Release"
    /\ emitted = Some(Up)

\* ---------------------------------------------------------------------
\* Properties of the layout engine (checked under SpecLayout)
\* ---------------------------------------------------------------------
IsRelease == lastEvent # None /\ lastEvent[1].kind = "Release"
IsPress == lastEvent # None /\ lastEvent[1].kind = "Press"

\* Positions of the states of sts whose coord is not c, in ascending order.
KeptPositions(sts, c) == {i \in 1..Len(sts) : sts[i].coord # c}

\* sts is old with exactly the states of coord c removed, order kept.
RemovedExactly(old, sts, c) ==
    /\ Len(sts) = Cardinality(KeptPositions(old, c))
    /\ \A i \in 1..Len(sts) : sts[i].coord # c
    /\ \A i \in 1..Len(sts) :
          \E p \in KeptPositions(old, c) :
             /\ Cardinality({q \in KeptPositions(old, c) : q <= p}) = i
             /\ sts[i] = old[p]

\* C7: after Layout::event(Release(c)) no active state (NormalKey or
\* LayerModifier) has coord = c, including all the states pushed together by
\* one MultipleKeyCodes press, and every state with a different coord is
\* kept, in its original order; default_layer is untouched. The same holds
\* of the single-layer variant.
C7_ReleaseRemovesCoord ==
    IsRelease =>
        /\ RemovedExactly(prevStates, states, lastEvent[1].coord)
        /\ RemovedExactly(prevFwStates, fw_states, lastEvent[1].coord)
        /\ default_layer = prevDefault

\* Releasing the shifted key drops both of its states and keeps a held layer
\* modifier and a key behind them.
C7_Witness ==
    /\ IsRelease
    /\ lastEvent[1].coord = <<1, 1>>
    /\ Cardinality({i \in 1..Len(prevStates) : prevStates[i].coord = <<1, 1>>}) = 2
    /\ \E i \in 1..Len(states) : states[i].tag = "LayerModifier"
    /\ \E i \in 1..Len(states) : states[i].tag = "NormalKey"
    /\ Len(fw_states) < Len(prevFwStates)

\* Values of the active LayerModifier states, by position in the stack.
ModifierValues == [i \in {j \in 1..Len(states) : states[j].tag = "LayerModifier"}
                      |-> states[i].value]

\* Sum of a finite family of numbers, taken in no particular order.
RECURSIVE SumFn(_)
SumFn(f) ==
    IF DOMAIN f = {} THEN 0
    ELSE LET i == CHOOSE j \in DOMAIN f : TRUE
         IN  f[i] + SumFn([j \in (DOMAIN f) \ {i} |-> f[j]])

PrevSelf == [layers |-> layers, default_layer |-> prevDefault, states |-> prevStates]

\* C10: a press at (r,c) while the current layer L differs from the default
\* layer, with Table[L][r][c] = Trans and Table[default][r][c] = KeyCode(k),
\* pushes NormalKey{k,(r,c)} (the stack not being full); if the default
\* layer's cell is also Trans, or the press happens on the default layer
\* itself with a Trans cell, the press pushes nothing and leaves
\* default_layer alone. The lookup is retried at most once.
C10_TransparentLookup ==
    IsPress =>
        LET c == lastEvent[1].coord
            atL == lookup(PrevSelf, c, prevLayer)
            atD == lookup(PrevSelf, c, prevDefault)
        IN  /\ lookups \in {1, 2}
            /\ lookups = 2 => (atL = Some(Trans) /\ prevLayer # prevDefault)
            /\ (/\ atL = Some(Trans)
                /\ prevLayer # prevDefault
                /\ atD # None
                /\ atD[1].tag = "KeyCode"
                /\ Len(prevStates) < CAPACITY) =>
                  /\ states = Append(prevStates, NormalKey(atD[1].keycode, c))
                  /\ default_layer = prevDefault
            /\ (/\ atL = Some(Trans)
                /\ (prevLayer = prevDefault \/ atD = Some(Trans))) =>
                  /\ states = prevStates
                  /\ default_layer = prevDefault

\* A is produced through the transparent cell (0,0) of layer 1.
C10_Witness ==
    /\ IsPress
    /\ lastEvent[1].coord = <<0, 0>>
    /\ prevLayer = 1
    /\ prevDefault = 0
    /\ lookups = 2
    /\ states = Append(prevStates, NormalKey("A", <<0, 0>>))

\* Both the current layer's cell and the default layer's cell are Trans.
C10_WitnessNoOp ==
    /\ IsPress
    /\ lastEvent[1].coord = <<1, 2>>
    /\ prevLayer = 1
    /\ prevDefault = 0
    /\ lookups = 2
    /\ states = prevStates

\* ---------------------------------------------------------------------
\* Scenario S3: two layer modifiers and a key of layer 3
\* ---------------------------------------------------------------------
\* The set of keycodes reported by Layout::keycodes().
KeycodeSet == {keycodes(Self)[i] : i \in 1..Len(keycodes(Self))}

\* The event history is exactly the first n events of S3_Script on LAYERS_S3.
OnScript(n) == layers = LAYERS_S3 /\ nevents = n /\ scriptPos = n

\* C11 as stated: after Press(0,0), Press(0,1), Press(0,2) the keycode set
\* is {X}, and after the following Release(0,1) it is empty.
C11_Original ==
    /\ OnScript(3) => KeycodeSet = {"X"}
    /\ OnScript(4) => KeycodeSet = {}

\* C11 (amended): with Layer(1) at (0,0), Layer(2) at (0,1) and KeyCode(X)
\* at (0,2) on layer 3, after Press(0,0), Press(0,1), Press(0,2) the keycode
\* set is {X}; it is still {X} after the following Release(0,1) and after
\* Release(0,0), because the NormalKey state of (0,2) stays on the stack;
\* it is empty only after Release(0,2).
C11_ScenarioS3 ==
    /\ OnScript(2) => current_layer(Self) = 3 /\ KeycodeSet = {}
    /\ OnScript(3) => KeycodeSet = {"X"}
    /\ OnScript(4) => KeycodeSet = {"X"} /\ current_layer(Self) = 1
    /\ OnScript(5) => KeycodeSet = {"X"} /\ current_layer(Self) = 0
    /\ OnScript(6) => KeycodeSet = {} /\ states = <<>>

C11_Witness ==
    /\ OnScript(4)
    /\ lastEvent = Some(Release(0, 1))
    /\ prevStates = << LayerModifier(1, <<0, 0>>), LayerModifier(2, <<0, 1>>),
                       NormalKey("X", <<0, 2>>) >>
    /\ states = << LayerModifier(1, <<0, 0>>), NormalKey("X", <<0, 2>>) >>

\* ---------------------------------------------------------------------
\* States sharing a coord (checked under SpecKeys)
\* ---------------------------------------------------------------------
\* C12 as stated: no two active NormalKey states have the same coord.
C12_Original ==
    \A i, j \in 1..Len(states) :
        (/\ i < j
         /\ states[i].tag = "NormalKey"
         /\ states[j].tag = "NormalKey") => states[i].coord # states[j].coord

\* The active states of coord c, in stack order.
StatesAt(c) == SelectSeq(states, LAMBDA st : st.coord = c)

\* sts is what one press of a MultipleKeyCodes cell of coord c pushes (a
\* prefix of its keycodes when the stack fills up on the way).
FromOneChord(sts, c) ==
    \E L \in 0..(Len(layers) - 1) :
        LET a == lookup(Self, c, L)
        IN  /\ a # None
            /\ a[1].tag = "MultipleKeyCodes"
            /\ Len(sts) <= Len(a[1].keycodes)
            /\ \A n \in 1..Len(sts) : sts[n] = NormalKey(a[1].keycodes[n], c)

\* C12 (amended): when the events of each coord alternate, Press first,
\* two active NormalKey states share a coord only if one press of a
\* MultipleKeyCodes cell pushed both; every coord with active states is a
\* held key; the single-layer variant never holds two states of one coord.
C12_SharedCoordOnlyByChord ==
    /\ \A c \in Coords :
          /\ Len(StatesAt(c)) >= 2 => FromOneChord(StatesAt(c), c)
          /\ Len(StatesAt(c)) >= 1 => c \in held
    /\ \A i, j \in 1..Len(fw_states) :
          i < j => fw_states[i].coord # fw_states[j].coord

C12_Witness ==
    /\ layers = LAYERS_A
    /\ IsPress
    /\ StatesAt(<<1, 1>>) =
          << NormalKey("LShift", <<1, 1>>), NormalKey("Kb1", <<1, 1>>) >>
    /\ Len(states) >= 3
    /\ Len(fw_states) >= 2
    /\ nevents >= 4

\* ---------------------------------------------------------------------
\* DefaultLayer (checked under SpecLayout)
\* ---------------------------------------------------------------------
\* The action the last press resolved to.
PressedAction == press_as_action(PrevSelf, lastEvent[1].coord, prevLayer).action

\* C13: pressing a key whose action is DefaultLayer(v) sets default_layer to
\* v when v is less than the number of layers and leaves it unchanged
\* otherwise; no state is pushed either way.
C13_DefaultLayer ==
    (IsPress /\ PressedAction.tag = "DefaultLayer") =>
        /\ states = prevStates
        /\ default_layer = IF PressedAction.value < Len(layers)
                           THEN PressedAction.value
                           ELSE prevDefault

\* DefaultLayer(1) is pressed on layer 0 and moves the default layer.
C13_Witness ==
    /\ IsPress
    /\ PressedAction = d(1)
    /\ prevDefault = 0
    /\ default_layer = 1
    /\ states = prevStates

\* DefaultLayer(3), one past the last of three layers, is pressed while
\* Layer(1) is held and the default layer was moved to 1 before: ignored.
C13_WitnessIgnored ==
    /\ IsPress
    /\ PressedAction = d(3)
    /\ Len(layers) = 3
    /\ prevDefault = 1
    /\ default_layer = 1
    /\ Len(states) = 1

\* ---------------------------------------------------------------------
\* Capacity of the state stack (checked under SpecKeys)
\* ---------------------------------------------------------------------
\* C14: the stack never holds more than 64 states; a press whose action
\* would push a state while 64 states are active is dropped and leaves the
\* states unchanged; the later release of that coord leaves the stack as it
\* is.
C14_StackCapacity ==
    /\ Len(states) <= CAPACITY
    /\ (IsPress /\ Len(prevStates) = CAPACITY) => states = prevStates
    /\ (IsRelease /\ lastEvent[1].coord \in dropped) => states = prevStates

\* A key was pressed on the full stack and has now been released.
C14_Witness ==
    /\ IsRelease
    /\ lastEvent[1].coord \in dropped
    /\ Len(prevStates) = CAPACITY
    /\ states = prevStates

\* A press on the full stack that would have pushed a state.
C14_WitnessDropped ==
    /\ IsPress
    /\ lastEvent[1].coord \in dropped
    /\ WouldPush(PressedAction)
    /\ Len(states) = CAPACITY

\* ---------------------------------------------------------------------
\* Presses outside the table (checked under SpecLayout)
\* ---------------------------------------------------------------------
\* The coord lies outside a table of rows of equal length.
OutOfTable(c, table) == c[1] >= Len(table) \/ c[2] >= Len(table[1])

\* C15: a press whose coord lies outside the table, or that is looked up
\* on a layer index past the last layer, is a NoOp: nothing is pushed and
\* default_layer keeps its value. In the single-layer variant a press
\* outside the table or on a cell holding No pushes nothing.
C15_OutOfBoundsIsNoOp ==
    IsPress =>
        LET c == lastEvent[1].coord
        IN  /\ (OutOfTable(c, layers[1]) \/ prevLayer >= Len(layers)) =>
                  /\ states = prevStates
                  /\ default_layer = prevDefault
                  /\ PressedAction = NoOp
            /\ (OutOfTable(c, FW_LAYERS) \/ FW_LAYERS[c[1] + 1][c[2] + 1] = "No") =>
                  fw_states = prevFwStates

\* Layer(1) and Layer(2) are held, so the press is looked up on layer 3 of
\* a three-layer table; its coord holds No in the single-layer table.
C15_Witness ==
    /\ IsPress
    /\ Len(layers) = 3
    /\ prevLayer = 3
    /\ lastEvent[1].coord = <<0, 1>>
    /\ Len(states) = 2
    /\ states = prevStates
    /\ fw_states = prevFwStates

\* A press right of the last column while a key is held in both variants.
C15_WitnessCoord ==
    /\ IsPress
    /\ lastEvent[1].coord = <<0, 3>>
    /\ Len(states) >= 1
    /\ Len(fw_states) >= 1
    /\ states = prevStates
    /\ fw_states = prevFwStates

\* ---------------------------------------------------------------------
\* Wire frame (checked under SpecLink)
\* ---------------------------------------------------------------------
\* C16: for every row and column in 0..7 and either kind, packing a frame
\* and unpacking the octet yields the same row, column and brk, and the
\* USB half decodes the event the scanning half sent.
C16_RoundTrip ==
    /\ wire # None => (unpack(wire[1]) = kevent[1] /\ wire[1] \in 0..255)
    /\ evRecv # None => evRecv = evSent

\* Row 5 (binary 101) and column 6 (110) were sent as a Release and came
\* back.
C16_Witness ==
    /\ evSent = Some(Release(5, 6))
    /\ evRecv = Some(Release(5, 6))
    /\ lastEvent = Some(Release(5, 6))

\* C17 as stated: {row = 5, col = 3, brk = true} packs to 0b1_0_011_101.
C17_Original ==
    (wire # None /\ kevent = Some(KeyEvent(5, 3, TRUE))) => wire[1] = 157

\* C17 (amended): {row = 5, col = 3, brk = true} packs to 0b101_011_0_1
\* (173): row in the three most significant bits, col in the next three,
\* the unused bit zero, brk in the least significant bit; unpacking the
\* octet reproduces the frame.
C17_PackedOctet ==
    (wire # None /\ kevent = Some(KeyEvent(5, 3, TRUE))) =>
        /\ wire[1] = 173
        /\ unpack(wire[1]) = KeyEvent(5, 3, TRUE)

C17_Witness ==
    /\ kevent = Some(KeyEvent(5, 3, TRUE))
    /\ wire = Some(173)

\* C18: the break flag is 1 for a release and 0 for a press: the scanning
\* half sets brk exactly when the event is a Release, and the USB half
\* decodes a frame with brk = 1 as a Release.
C18_BreakMeansRelease ==
    /\ kevent # None => (kevent[1].brk <=> evSent[1].kind = "Release")
    /\ evRecv # None => (kevent[1].brk <=> evRecv[1].kind = "Release")

\* The halves built from fw/ put a Press on the wire with brk = 1 and decode
\* it as a Press.
C18_Witness ==
    /\ tree = "fw"
    /\ evSent = Some(Press(2, 4))
    /\ kevent = Some(KeyEvent(2, 4, TRUE))
    /\ evRecv = Some(Press(2, 4))

\* ---------------------------------------------------------------------
\* Scan double buffer (checked under SpecScan)
\* ---------------------------------------------------------------------
\* The consumer is about to read a word of the half it selected.
Reading == pc = "read" /\ rd < FRAME

\* The half the DMA is writing into.
DmaHalf == dmaPos \div FRAME

FramesInOrder ==
    /\ \A i \in 1..Len(frames) :
          frames[i] = [half |-> (i - 1) % 2, words |-> [j \in 1..FRAME |-> i]]
    /\ Len(frames) <= scans
    /\ Len(frames) >= scans - 1

\* The half is selected from the half-complete bit, the flags of the row
\* transfer are cleared by the clearing write and, as long as every
\* notification was serviced before the next frame completed, the frames
\* are processed in order, once each.
SelectsAndClears ==
    /\ pc # "idle" => half = (IF entryHtif THEN 0 ELSE 1)
    /\ cleared
    /\ ~late => FramesInOrder

\* C20: on each notification the consumer selects frame 0 when the
\* half-complete bit of the row-sampling transfer is set and frame 1 when
\* it is clear, and clears the pending flags; when every notification is
\* serviced before the next one arrives, successive runs read frames
\* 0,1,0,1,... and each completed frame is processed exactly once. Stated
\* for both consumers, the handler tick and the loop of main.
C20_AlternatingFrames == consumer \in {"tick", "main"} => SelectsAndClears

\* The loop of main has processed frame 0 twice although one frame only
\* was completed, nothing arriving late.
C20_Witness ==
    /\ consumer = "main"
    /\ ~late
    /\ scans = 1
    /\ Len(frames) = 2
    /\ frames[1] = frames[2]
    /\ frames[1].half = 0
    /\ ~cleared

\* The handler tick alone satisfies the statement.
TickAlternatingFrames == consumer = "tick" => SelectsAndClears

TickAlternatingWitness ==
    /\ consumer = "tick"
    /\ ~late
    /\ Len(frames) = 3
    /\ frames[3].half = 0
    /\ scans = 3

\* ---------------------------------------------------------------------
\* Column strobe (checked under SpecScan)
\* ---------------------------------------------------------------------
\* C21: after every strobe write exactly one of the six column lines is
\* driven, the strobed column advances cyclically 0..5, and the k-th word
\* of a frame holds the rows sampled while column k was driven.
C21_OneColumnStrobed ==
    /\ strobes >= 1 =>
          /\ Cardinality(odr \cap COL_PINS) = 1
          /\ DrivenColumns(odr) = {(strobes - 1) % STROBE_LEN}
          /\ odr \subseteq COL_PINS
    /\ \A i \in 0..(2 * FRAME - 1) :
          scanout[i] # 0 => sampled[i] = {i % FRAME}

\* The strobe has wrapped around: the eighth write drives column 1 again
\* and the first word of frame 1 was sampled under column 0.
C21_Witness ==
    /\ strobes = 8
    /\ DrivenColumns(odr) = {1}
    /\ scanout[FRAME] = 2
    /\ sampled[FRAME] = {0}
    /\ scans = 1

\* ---------------------------------------------------------------------
\* Serial receive errors (checked under SpecLink)
\* ---------------------------------------------------------------------
\* C22: on the USB half a receive error of kind framing, noise, overrun or
\* parity halts the firmware (no further event is processed); a would-block
\* result is ignored: the handler returns with the layout state unchanged
\* and the firmware keeps running.
C22_ErrorsHaltWouldBlockIgnored ==
    /\ lastRx \in {"Framing", "Noise", "Overrun", "Parity"} =>
          (halted /\ LayoutSnapshot = rxBefore)
    /\ halted => lastRx # "Ok"
    /\ lastRx = "WouldBlock" => (~halted /\ LayoutSnapshot = rxBefore)

\* The USB half built from src/ stopped on a would-block result after it
\* had processed an event.
C22_Witness ==
    /\ tree = "src"
    /\ lastRx = "WouldBlock"
    /\ halted
    /\ nevents = 1
    /\ Len(states) = 1

\* The handlers of firmware/ and fw/ alone satisfy the statement.
C22_LaterTrees == tree # "src" => C22_ErrorsHaltWouldBlockIgnored

C22_LaterTreesWitness ==
    /\ tree = "fw"
    /\ lastRx = "WouldBlock"
    /\ ~halted
    /\ nevents = 1
    /\ Len(states) = 1

\* ---------------------------------------------------------------------
\* Handlers of the USB half (checked under SpecUsb)
\* ---------------------------------------------------------------------
\* C23: the layout sees a serial interleaving of remote and local events:
\* uart_rx and tick never run inside each other, so no remote event is
\* applied between two events of one frame, and the report taken by tick
\* holds the keycodes of exactly the events applied so far; the USB
\* handlers may preempt but leave the layout and the debouncers untouched.
C23_SerialInterleaving ==
    /\ ~nested
    /\ ~(InStack("tick") /\ InStack("uart_rx"))
    /\ ~mixed
    /\ tickPc \in {"set", "write"} =>
          report = KbHidReport_collect(keycodes(Self))
    /\ lastStep \in {"usb_tx", "usb_rx"} => usbSnap = <<LayoutSnapshot, cell, trig>>

\* A remote event was applied, then a USB handler preempted tick between
\* the two events of a frame.
C23_Witness ==
    /\ tickPc = "events"
    /\ frameEvents = 1
    /\ Len(pending) = 1
    /\ lastStep = "usb_tx"
    /\ nevents = 2
    /\ Len(states) = 2

\* A frame's report holds a remote and a local keycode.
C23_WitnessReport ==
    /\ tickPc = "write"
    /\ report = [mods |-> {"LShift"}, keys |-> <<"B">>]

\* A frame has been processed to its end.
FrameDone ==
    /\ nframes >= 1
    /\ \/ consumer = "main"
       \/ consumer = "tick" /\ tickPc = "idle"

\* usb_class.write was called in the last frame exactly when the report
\* assembled in it differs from the last report sent before it.
WrittenIffChanged == FrameDone => ((writeCalls >= 1) <=> (report # sentBefore))

\* C24: after each scan frame a HID report is written to the USB endpoint
\* if and only if the newly assembled report differs from the last report
\* sent; a frame that leaves the held keycodes unchanged causes no write.
C24_ReportWrittenOnChange == consumer \in {"tick", "main"} => WrittenIffChanged

\* The loop of fw/src/main.rs wrote the report of a frame that is equal to
\* the report sent in the frame before.
C24_Witness ==
    /\ consumer = "main"
    /\ nframes = 2
    /\ writeCalls = 1
    /\ report = sentBefore
    /\ report = [mods |-> {"LShift"}, keys |-> <<>>]

\* The handler tick alone satisfies the statement.
TickReportOnChange == consumer = "tick" => WrittenIffChanged

\* tick processed a second frame that left the report unchanged and did
\* not write.
TickReportWitness ==
    /\ consumer = "tick"
    /\ nframes = 2
    /\ tickPc = "idle"
    /\ writeCalls = 0
    /\ report = sentBefore
    /\ report = [mods |-> {}, keys |-> <<"B">>]

\* tick wrote the changed report after the endpoint had refused it once.
TickReportWitnessRetry ==
    /\ consumer = "tick"
    /\ nframes = 2
    /\ tickPc = "idle"
    /\ writeCalls = 2
    /\ sent = report
    /\ report # sentBefore

\* ---------------------------------------------------------------------
\* Log ring (checked under SpecLog) and boot singletons (under SpecQD)
\* ---------------------------------------------------------------------
\* C25: head is always in [0, LOG_SIZE) and is the index of the next write;
\* log(elem) stores elem at body[head] and advances head modulo LOG_SIZE,
\* overwriting the oldest record; once LOG_SIZE or more records were
\* written, body[head..LOG_SIZE] followed by body[0..head] is the last
\* LOG_SIZE records in write order.
C25_LogRing ==
    LET n == Len(written)
    IN  /\ log.head \in 0..(LOG_SIZE - 1)
        /\ log.head = n % LOG_SIZE
        /\ n >= 1 => body_at(log, (n - 1) % LOG_SIZE) = written[n]
        /\ n >= LOG_SIZE => slurp(log) = SubSeq(written, n - LOG_SIZE + 1, n)

\* The ring has wrapped: three records of the first lap are overwritten.
C25_Witness ==
    /\ Len(written) = LOG_SIZE + 3
    /\ log.head = 3
    /\ body_at(log, 2) = written[LOG_SIZE + 3]
    /\ slurp(log)[1] = written[4]

\* C26: the boot singletons are acquired at most once: the first Log::get()
\* returns the ring and every later call panics; the allocation of the scan
\* buffer in dma_key_scan fails fatally on a second call.
C26_SingletonsOnce ==
    /\ logRefs <= 1
    /\ scanRefs <= 1
    /\ getCalls >= 1 => (TAKEN /\ logRefs = 1)
    /\ scanCalls >= 1 => (scanoutTaken /\ scanRefs = 1)
    /\ bootPanic <=> (getCalls >= 2 \/ scanCalls >= 2)
    /\ getCalls + scanCalls <= 3

\* Log::get was called a second time after the ring had been written to.
C26_Witness ==
    /\ getCalls = 2
    /\ logRefs = 1
    /\ bootPanic
    /\ written # <<>>

\* dma_key_scan was called a second time.
C26_WitnessScan ==
    /\ scanCalls = 2
    /\ scanRefs = 1
    /\ getCalls = 1
    /\ bootPanic

\* ---------------------------------------------------------------------
\* Properties of the tick-driven layout (checked under SpecTick)
\* ---------------------------------------------------------------------
HoldTapKey(c) == LAYERS_HT[1][1][c[2] + 1]

\* The ticks the key of resolution x was down: from the event() of its
\* press to the event() of the first release of its coord after it; None
\* while that release has not been given.
RECURSIVE held_from(_, _, _)
held_from(x, p, j) ==
    IF j > Len(given) THEN None
    ELSE IF given[j].event = [kind |-> "Release", coord |-> x.coord]
         THEN Some(given[j].at - p)
         ELSE held_from(x, p, j + 1)

HeldTicks(x) == held_from(x, given[x.press].at, x.press + 1)

RECURSIVE events_of(_)
events_of(stk) ==
    IF stk = <<>> THEN <<>> ELSE <<Head(stk).event>> \o events_of(Tail(stk))

GivenEvents == [i \in 1..Len(given) |-> given[i].event]

\* C27: with the Default policy a HoldTap key resolves to its tap action
\* exactly when it was released before its timeout ran out, and to its hold
\* action when it was still held then (the timeout runs from the tick that
\* follows the press, so a key held for at most `timeout` ticks is a tap);
\* the resolution runs the tap or hold action at the key's coord.  Until it
\* is resolved the key has no state, hence no keycode, and the events given
\* meanwhile stay queued in order: a tick applies at most one event, and
\* none while a key is waiting.
C27_HoldTapDefault ==
    kb.layers = LAYERS_HT =>
        /\ resolved # None =>
              LET x == resolved[1]
                  h == HeldTicks(x)
              IN  /\ x.how = "tap" <=>
                        (h # None /\ h[1] <= HoldTapKey(x.coord).timeout)
                  /\ x.how = "hold" <=>
                        (h = None \/ h[1] > HoldTapKey(x.coord).timeout)
        /\ did \in {"tap", "hold"} =>
              LET x == resolved[1]
                  a == IF did = "tap" THEN HoldTapKey(x.coord).tap
                       ELSE HoldTapKey(x.coord).hold
              IN  /\ kb.waiting = None
                  /\ Len(kb.states) >= 1
                  /\ kb.states[Len(kb.states)] =
                        do_action(Layout_new(LAYERS_HT), a, x.coord).states[1]
        /\ kb.waiting # None =>
              /\ \A i \in 1..Len(kb.states) :
                    kb.states[i].coord # kb.waiting[1].coord
              /\ applied # <<>>
              /\ applied[Len(applied)] =
                    [kind |-> "Press", coord |-> kb.waiting[1].coord]
        /\ applied \o events_of(kb.stacked) = GivenEvents
        /\ Len(applied) <= appliedBefore + 1
        /\ did \in {"wait", "tap", "hold"} => Len(applied) = appliedBefore

\* A key released in time has become its tap while the press of the other
\* key, given meanwhile, is still queued behind it.
C27_Witness ==
    /\ kb.layers = LAYERS_HT
    /\ did = "tap"
    /\ resolved[1].coord = <<0, 0>>
    /\ HeldTicks(resolved[1]) = Some(2)
    /\ Len(kb.stacked) = 2
    /\ kb.stacked[1].event = Press(0, 1)
    /\ keycodes(kb) = <<"Space">>

\* A key still held when its timeout ran out has become its hold.
C27_WitnessHold ==
    /\ kb.layers = LAYERS_HT
    /\ did = "hold"
    /\ resolved[1].coord = <<0, 0>>
    /\ HeldTicks(resolved[1]) = None
    /\ resolved[1].at = given[resolved[1].press].at + 1 + 3
    /\ current_layer(kb) = 1

\* A deferred key whose release was queued before it was looked at, held
\* longer than its timeout, has become its hold.
C27_WitnessLate ==
    /\ kb.layers = LAYERS_HT
    /\ did = "hold"
    /\ HeldTicks(resolved[1]) # None
    /\ HeldTicks(resolved[1])[1] > HoldTapKey(resolved[1].coord).timeout

\* A key held for exactly its timeout is a tap.
C27_WitnessBoundary ==
    /\ kb.layers = LAYERS_HT
    /\ did = "tap"
    /\ HeldTicks(resolved[1]) = Some(HoldTapKey(resolved[1].coord).timeout)

\* Presses minus releases of coord c among the applied events.
RECURSIVE down_count(_, _)
down_count(evs, c) ==
    IF evs = <<>> THEN 0
    ELSE down_count(Tail(evs), c)
         + (IF Head(evs).coord # c THEN 0
            ELSE IF Head(evs).kind = "Press" THEN 1 ELSE -1)

AppliedDown(c) == down_count(applied, c) > 0

JustApplied(e) ==
    did = "unstack" /\ applied # <<>> /\ applied[Len(applied)] = e

\* The states of coord c, in stack order.
KbStatesAt(c) ==
    filter_map([i \in 1..Len(kb.states) |->
                   IF kb.states[i].coord = c THEN Some(kb.states[i]) ELSE None])

\* C28: while a key bound to MultipleActions([Layer(1), KeyCode(LShift)]) is
\* down, both sub-actions have acted at its coord: the states of that coord
\* are the layer modifier and the LShift key, LShift is reported and a key
\* pressed meanwhile is looked up on layer 1; once the key is released no
\* state of its coord is left and the layer is the default one again.
C28_MultipleActions ==
    kb.layers = LAYERS_MA =>
        /\ IF AppliedDown(<<0, 0>>)
           THEN /\ KbStatesAt(<<0, 0>>) =
                      <<LayerModifier(1, <<0, 0>>), NormalKey("LShift", <<0, 0>>)>>
                /\ \E i \in 1..Len(keycodes(kb)) : keycodes(kb)[i] = "LShift"
                /\ current_layer(kb) = 1
           ELSE /\ KbStatesAt(<<0, 0>>) = <<>>
                /\ current_layer(kb) = 0
        /\ JustApplied(Press(0, 1)) =>
              kb.states[Len(kb.states)] =
                  NormalKey(IF AppliedDown(<<0, 0>>) THEN "E" ELSE "F", <<0, 1>>)
        /\ custom = NoEvent

\* The key is down and the key pressed after it came from layer 1.
C28_Witness ==
    /\ kb.layers = LAYERS_MA
    /\ JustApplied(Press(0, 1))
    /\ keycodes(kb) = <<"LShift", "E">>

\* The key was released while the other one stays down.
C28_WitnessRelease ==
    /\ kb.layers = LAYERS_MA
    /\ JustApplied(Release(0, 0))
    /\ keycodes(kb) = <<"E">>
    /\ current_layer(kb) = 0

\* C29: a press of a key bound to Custom(t) pushes no keycode; the tick
\* that applies the press returns CustomEvent::Press(t), the tick that
\* applies the release returns CustomEvent::Release(t), every other tick
\* returns NoEvent (so a held key reports its press once); the key never
\* adds a keycode.
C29_CustomEvents ==
    kb.layers = LAYERS_CUSTOM =>
        /\ did # "event" =>
              custom = IF JustApplied(Press(0, 0)) THEN CustomPress(42)
                       ELSE IF JustApplied(Release(0, 0)) THEN CustomRelease(42)
                       ELSE NoEvent
        /\ KbStatesAt(<<0, 0>>) =
              IF AppliedDown(<<0, 0>>) THEN <<CustomState(42, <<0, 0>>)>> ELSE <<>>
        /\ keycodes(kb) = IF AppliedDown(<<0, 1>>) THEN <<"A">> ELSE <<>>

\* The release of the held Custom key is reported.
C29_Witness ==
    /\ kb.layers = LAYERS_CUSTOM
    /\ custom = CustomRelease(42)
    /\ did = "unstack"
    /\ keycodes(kb) = <<>>
    /\ kticks >= 3

\* The press is reported by the tick that applies it.
C29_WitnessPress ==
    /\ kb.layers = LAYERS_CUSTOM
    /\ custom = CustomPress(42)
    /\ JustApplied(Press(0, 0))
    /\ keycodes(kb) = <<>>

\* The key stays held: a later tick reports nothing.
C29_WitnessHeld ==
    /\ kb.layers = LAYERS_CUSTOM
    /\ AppliedDown(<<0, 0>>)
    /\ did = "idle"
    /\ custom = NoEvent
    /\ keycodes(kb) = <<>>

\* ---------------------------------------------------------------------
\* The sequence of edges of one cell (checked under SpecQD)
\* ---------------------------------------------------------------------
\* C30: the edges step emits for a cell alternate, the first one being a
\* Press: the last emitted edge is Down after an odd number of edges and Up
\* after an even number, an edge emitted by the last step is the opposite
\* of the one before it, and whenever the cell is in Stable(X) the last
\* emitted edge is X (X = Up when nothing was emitted yet); while the cell
\* is Bouncing the last emitted edge is the speculative one, !prior.
C30_EdgesAlternate ==
    /\ level = (IF edges % 2 = 1 THEN Down ELSE Up)
    /\ edges = 0 => level = Up
    /\ emitted # None =>
          /\ emitted[1] = level
          /\ edges >= 1
          /\ edges = 1 => emitted[1] = Down
    /\ cell.tag = "Stable" => cell.value = level
    /\ cell.tag = "Bouncing" => level # cell.prior

\* A speculative Press was cancelled by a Release and the key was then
\* pressed for good: three edges, the cell stable at Down.
C30_Witness ==
    /\ edges = 3
    /\ cell = Stable(Down)
    /\ level = Down
    /\ transitions > edges

\* ---------------------------------------------------------------------
\* The two debouncers side by side (checked under SpecQD)
\* ---------------------------------------------------------------------
\* C31: fed the same samples, ticks and stable window from Stable(Up), the
\* level-based debouncer and the edge-emitting one are in corresponding
\* states after every step (same variant, prior and current, and `since`
\* of the former is the low byte of `since` of the latter), and
\* is_pressed() of the former is the last edge the latter emitted (Up when
\* it emitted none).
C31_DebouncersCorrespond ==
    /\ trig.tag = cell.tag
    /\ state_name(trig) = state_name(cell)
    /\ cell.tag = "Bouncing" =>
          /\ trig.prior = cell.prior
          /\ trig.current = cell.current
          /\ trig.since = as_u8(cell.since)
    /\ is_pressed(trig) = level
    /\ edges = 0 => is_pressed(trig) = Up

\* Both debouncers took a speculative Press, bounced and cancelled it.
C31_Witness ==
    /\ edges = 2
    /\ transitions >= 3
    /\ cell = Stable(Up)
    /\ trig = Stable(Up)
    /\ emitted = Some(Up)
    /\ prevTrig.tag = "Bouncing"
    /\ is_pressed(prevTrig) = Down

\* ---------------------------------------------------------------------
\* Properties of the matrix of one half (checked under SpecMx)
\* ---------------------------------------------------------------------
SeqSet(q) == {q[i] : i \in 1..Len(q)}

\* The keycode of the single-layer table at the local coord c.
KeycodeAt(c) == MX_LAYOUT[c[1] + 1][c[2] + 6 + 1]

\* The keycodes other than No of the local keys whose debouncer, of the
\* edge-emitting kind, is at the pressed level.
PressedKeycodes ==
    {KeycodeAt(c) : c \in {x \in MxCoords : is_pressed(triggers[x])}} \ {"No"}

\* C32: after a frame the keycodes of the single-layer layout's state
\* stack, which the frame's events drive, are as a set the keycodes other
\* than No of the keys whose debouncer is at the pressed level, and the
\* report built from is_pressed() of the level-based debouncers presses the
\* same set; the stack holds one state per pressed key that has a keycode.
C32_StackMatchesLevels ==
    /\ SeqSet(fw_keycodes(mstates)) = PressedKeycodes
    /\ SeqSet(mreport) \ {"No"} = SeqSet(fw_keycodes(mstates))
    /\ KbHidReport_collect(mreport).mods =
          KbHidReport_collect(fw_keycodes(mstates)).mods
    /\ SeqSet(KbHidReport_collect(mreport).keys) =
          SeqSet(KbHidReport_collect(fw_keycodes(mstates)).keys)
    /\ Len(mstates) < CAPACITY
    /\ {mstates[i].coord : i \in 1..Len(mstates)} =
          {<<c[1], c[2] + 6>> : c \in {x \in MxCoords :
              is_pressed(triggers[x]) /\ KeycodeAt(x) # "No"}}
    /\ Len(mstates) = Cardinality({mstates[i].coord : i \in 1..Len(mstates)})

\* Two keys with the keycode A were pressed and one was released again
\* while the key without keycode is held: one A and LShift stay reported.
C32_Witness ==
    /\ mframes = 3
    /\ is_pressed(triggers[<<1, 0>>])
    /\ is_pressed(triggers[<<1, 1>>])
    /\ ~is_pressed(triggers[<<0, 0>>])
    /\ \E i \in 1..Len(mevents) : mevents[i] = Release(0, 0)
    /\ fw_keycodes(mstates) = <<"A">>
    /\ mreport = <<"No", "A">>

\* ---------------------------------------------------------------------
\* Properties of the two halves end to end (checked under SpecPair)
\* ---------------------------------------------------------------------
IsPrefix(a, b) == Len(a) <= Len(b) /\ a = SubSeq(b, 1, Len(a))

\* Nothing is on its way: the loop of the scanning half is done and the
\* registers of the line are empty.
Quiet == txQueue = <<>> /\ tdr = None /\ txsr = None /\ rdr = None

\* C33: every event the scanning half's debouncer yields is given to the
\* layout of the USB half exactly once, in sending order, with its row, its
\* column and its kind: the applied events are a prefix of the yielded ones
\* and, once nothing is on its way, all of them.
C33_EndToEnd ==
    /\ IsPrefix(appliedLog, produced)
    /\ Quiet => appliedLog = produced

\* Three events, a Release among them, went through the halves of the fw
\* tree.
C33_Witness ==
    /\ tree = "fw"
    /\ Quiet
    /\ Len(produced) = 3
    /\ appliedLog = produced
    /\ \E i \in 1..3 : produced[i] = Release(7, 7)
    /\ lastEvent = Some(produced[3])

\* What holds in both trees: the events arrive unchanged and in order, and
\* all of them as long as neither half has panicked; the scanning half of
\* the fw tree never panics on a write.
C33_DeliveredUnlessHalted ==
    /\ IsPrefix(appliedLog, produced)
    /\ (Quiet /\ ~halted /\ ~lhalted) => appliedLog = produced
    /\ tree = "fw" => ~lhalted

\* The scanning half of the src tree panicked on the third event of a
\* frame: the event was yielded and is never applied, nor is any later one.
C33_SenderPanics ==
    /\ tree = "src"
    /\ lhalted
    /\ ~halted
    /\ ~ore
    /\ Quiet
    /\ Len(produced) = 3
    /\ Len(appliedLog) = 2

\* ---------------------------------------------------------------------
\* States hold their keycode by value (checked under SpecLayout)
\* ---------------------------------------------------------------------
\* C34: an event never alters a state that stays on the stack. A release
\* leaves exactly the states of the other coords, each with the keycode or
\* layer value it was pushed with and in the same order, also when the
\* released key is the layer modifier the key was resolved under; a press,
\* a change of the default layer included, keeps every state and adds only
\* states of its own coord. So a state leaves the stack only by the release
\* of its coord.
C34_StatesByValue ==
    lastEvent # None =>
        LET e == lastEvent[1]
        IN  IF e.kind = "Release"
            THEN states = SelectSeq(prevStates, LAMBDA st : st.coord # e.coord)
            ELSE /\ IsPrefix(prevStates, states)
                 /\ \A i \in (Len(prevStates) + 1)..Len(states) :
                       states[i].coord = e.coord

\* B was resolved on layer 1; its modifier has been released and B stays,
\* although the key's cell on the layer that is current now holds another
\* action.
C34_Witness ==
    /\ layers = LAYERS_A
    /\ lastEvent = Some(Release(0, 1))
    /\ prevStates = <<LayerModifier(1, <<0, 1>>), NormalKey("B", <<1, 1>>)>>
    /\ states = <<NormalKey("B", <<1, 1>>)>>
    /\ current_layer(Self) = 0
    /\ press_as_action(Self, <<1, 1>>, current_layer(Self)).action # k("B")

\* The default layer changed under a held key: its state is unchanged.
C34_WitnessDefault ==
    /\ layers = LAYERS_A
    /\ lastEvent = Some(Press(1, 0))
    /\ prevDefault = 0
    /\ default_layer = 1
    /\ states = <<NormalKey("A", <<0, 0>>)>>
    /\ press_as_action(Self, <<0, 0>>, current_layer(Self)).action # k("A")

\* ---------------------------------------------------------------------
\* One drain of keys_from_scan (checked under SpecMx)
\* ---------------------------------------------------------------------
\* The step of cell c in the last frame, computed from the cell alone.
CellStep(c) ==
    step(prevTriggers[c], word_bit(scanhalf[c[2]], c[1]), now, timeout)

\* The cells whose step of the last frame emitted an edge, in scan order.
EdgeCells == SelectSeq(MxOrder, LAMBDA c : CellStep(c).event # None)

\* C35: one drain of keys_from_scan steps every cell exactly once, column
\* by column and row by row within a column, with bit `row` of the word of
\* its column as sample and the frame's tick for every cell; every cell is
\* left in the state its step gives, and the events are exactly the edges
\* those steps emit, with the cell's (row, col) as coord, in that order.
C35_DrainStepsEachCellOnce ==
    mframes > 0 =>
        /\ Len(stepLog) = Cardinality(MxCoords)
        /\ \A n \in 1..Len(stepLog) :
              /\ stepLog[n].coord = MxOrder[n]
              /\ stepLog[n].sample = word_bit(scanhalf[MxOrder[n][2]], MxOrder[n][1])
              /\ stepLog[n].tnow = now
        /\ \A c \in MxCoords : triggers[c] = CellStep(c).next
        /\ Len(mevents) = Len(EdgeCells)
        /\ \A i \in 1..Len(mevents) :
              /\ mevents[i].coord = EdgeCells[i]
              /\ mevents[i].kind =
                    IF CellStep(EdgeCells[i]).event[1] THEN "Press" ELSE "Release"

\* A frame whose words have a bit set above the rows: two of the four cells
\* emit, the one of column 0 first, the others are stepped and are silent.
C35_Witness ==
    /\ mframes = 2
    /\ scanhalf[0] >= 4
    /\ Len(mevents) = 2
    /\ mevents[1].coord[2] = 0
    /\ mevents[2] = [kind |-> "Press", coord |-> <<1, 1>>]
    /\ \E c \in MxCoords : CellStep(c).event = None /\ triggers[c] # prevTriggers[c]

\* ---------------------------------------------------------------------
\* The stable window across the wrap (checked under SpecWin)
\* ---------------------------------------------------------------------
\* C36: the key has read the same sample for `run` scans, so run - 1 ticks
\* have passed since the change that made the cell Bouncing. Both
\* debouncers measure exactly that, the one in 32 bits and the other in 8,
\* also when the counter has wrapped since; the cell is Bouncing while
\* run - 1 < T and is Stable at the sample from the scan with run - 1 = T
\* on: it turns Stable at that scan and at no other.
C36_WindowWrapSafe ==
    /\ cell.tag = "Bouncing" =>
          /\ run - 1 < timeout
          /\ u32_wrapping_sub(now, cell.since) = u32_of(run - 1)
          /\ cell.current = sample
    /\ trig.tag = "Bouncing" =>
          /\ run - 1 < timeout
          /\ u8_wrapping_sub(as_u8(now), trig.since) = run - 1
          /\ trig.current = sample
    /\ (transitions > 0 /\ run - 1 >= timeout) =>
          cell = Stable(sample) /\ trig = Stable(sample)
    /\ (prevCell.tag = "Bouncing" /\ cell.tag = "Stable") => run - 1 = timeout
    /\ (prevTrig.tag = "Bouncing" /\ trig.tag = "Stable") => run - 1 = timeout

\* The window of 100 ticks ends after both counters wrapped: `since` is
\* above `now` in 32 and in 8 bits.
C36_Witness ==
    /\ timeout = TRIGGER_T
    /\ run - 1 = timeout
    /\ prevCell.tag = "Bouncing" /\ cell = Stable(sample)
    /\ prevTrig.tag = "Bouncing" /\ trig = Stable(sample)
    /\ u32_lt(now, prevCell.since)
    /\ as_u8(now) < prevTrig.since

\* One scan earlier the cells are still Bouncing, past the wrap.
C36_WitnessNotEarlier ==
    /\ timeout = TRIGGER_T
    /\ run = timeout
    /\ cell.tag = "Bouncing" /\ trig.tag = "Bouncing"
    /\ u32_lt(now, cell.since)
    /\ as_u8(now) < trig.since

\* ---------------------------------------------------------------------
\* Tick counter and scan frames (checked under SpecScan)
\* ---------------------------------------------------------------------
\* The frames completed whose run of the consumer has not counted its tick
\* yet: a frame nobody has begun, or the one of the run that is between
\* selecting the half and the clearing write.
Uncounted == IF fresh \/ pc = "clear" THEN 1 ELSE 0

\* As long as every notification was serviced before the next frame
\* completed, the tick counter is the number of frames completed and
\* counted.
CountsFrames == ~late => now = u32_of(scans - Uncounted)

\* C37: the tick counter advances by exactly one for each completed scan
\* frame, one increment per notification, so that T ticks are T scan
\* periods. Stated for both consumers, the handler tick and the loop of
\* main.
C37_TickPerFrame == consumer \in {"tick", "main"} => CountsFrames

\* The loop of main has counted two ticks although one frame only was
\* completed, nothing arriving late.
C37_Witness ==
    /\ consumer = "main"
    /\ ~late
    /\ scans = 1
    /\ pc = "idle"
    /\ now = u32_of(2)
    /\ Len(frames) = 2

\* The handler tick alone satisfies the statement.
TickCountsFrames == consumer = "tick" => CountsFrames

TickCountsWitness ==
    /\ consumer = "tick"
    /\ ~late
    /\ scans = 3
    /\ Len(frames) = 3
    /\ now = u32_of(3)

\* ---------------------------------------------------------------------
\* Timer registers (checked under SpecTimSetup)
\* ---------------------------------------------------------------------
\* The values of the formulas on unbounded integers.
ExactTicks == tim1.clock \div tim1.freq
ExactPsc == (ExactTicks - 1) \div HALF
ExactArr == ExactTicks \div (ExactPsc + 1)

\* The setup ran without panic and the registers hold the exact values.
RegistersExact ==
    /\ tim1.state = "set"
    /\ ExactPsc < HALF /\ tim1.psc = ExactPsc
    /\ ExactArr < HALF /\ tim1.arr = ExactArr
    /\ tim1.ccr4 = (ExactArr * 2) \div 5

\* C38: for every slot frequency and timer clock with 1 <= freq <= clock
\* the setup computes psc = (ticks - 1) div 65536 and arr = ticks div
\* (psc + 1) without truncation and the compare value arr * 2 / 5 without
\* 16-bit overflow.
C38_RegistersFit == tim1.state # "reset" => RegistersExact

\* A slot of 1500 Hz on the 72 MHz clock: arr = 48000 and arr * 2 does not
\* fit in 16 bits; without overflow checks the compare value is 6092, not
\* 19200.
C38_Witness ==
    /\ tim1.freq = 1500 /\ tim1.clock = SYSCLK /\ ~tim1.checks
    /\ tim1.state = "set"
    /\ tim1.arr = 48000
    /\ tim1.ccr4 = 6092

\* The same slot in a build with overflow checks: the setup panics.
C38_WitnessPanic ==
    /\ tim1.freq = 1500 /\ tim1.clock = SYSCLK /\ tim1.checks
    /\ tim1.state = "panic"

\* A period of 65536 timer ticks: the reload value is truncated to 0.
C38_WitnessTruncated ==
    /\ tim1.freq = 1 /\ tim1.clock = HALF
    /\ tim1.state = "set"
    /\ ExactArr = HALF /\ tim1.arr = 0

\* With a reload value below 2^15 the registers are exact: the deployed
\* slots are.
SmallReloadExact ==
    (tim1.state # "reset" /\ ExactArr * 2 < HALF) => RegistersExact

SmallReloadWitness ==
    /\ tim1.freq = SCAN_FREQ * 6 /\ tim1.clock = SYSCLK
    /\ tim1.state = "set"
    /\ tim1.psc = 0 /\ tim1.arr = 2400 /\ tim1.ccr4 = 960

\* ---------------------------------------------------------------------
\* Termination of the write loop (checked under SpecUsbLive)
\* ---------------------------------------------------------------------
\* C39: a run of tick that has reached the write loop leaves it: the write
\* is repeated while it accepts nothing, the USB handlers preempt tick
\* between two passes and end the transfer that fills the endpoint, the
\* next pass is accepted and the handler returns, the report it wrote being
\* the one sent.
C39_WriteLoopEnds ==
    (tickPc = "write") ~> (tickPc = "idle" /\ active = <<>> /\ sent = report)

\* The handler has returned after a pass that accepted nothing and one
\* that accepted the report.
C39_Witness ==
    /\ tickPc = "idle"
    /\ active = <<>>
    /\ nframes = 2
    /\ retries = MaxRetries
    /\ writeCalls > retries
    /\ sent = report
    /\ sent # sentBefore

\* While the endpoint is full a pass accepts nothing and the loop goes on.
C39_RetriesWhileFull ==
    (tickPc = "write" /\ retries > 0 /\ sent # report) => InStack("tick")

\* ---------------------------------------------------------------------
\* Reading the log while it is written (checked under SpecSlurp)
\* ---------------------------------------------------------------------
\* The timestamps of a sequence of records never decrease.
TimeOrdered(q) ==
    \A i \in 1..(Len(q) - 1) : ~u32_lt(q[i + 1].timestamp, q[i].timestamp)

\* C40: a reader that read head first and then copied the body while fewer
\* than 1024 records were appended has, in the order head_val..size, then
\* 0..head_val, records whose timestamps never decrease, the first one
\* being the oldest.
C40_ConcurrentReadOrdered ==
    (reader.pc = "done" /\ Len(written) - reader.n0 < LOG_SIZE) =>
        TimeOrdered(slurp_out(reader))

\* The ring had wrapped and one record was logged between the read of head
\* and the copy of slot head_val: the first record printed is the newest
\* of all and the second one is older.
C40_Witness ==
    /\ reader.pc = "done"
    /\ reader.n0 = LOG_SIZE + 2
    /\ reader.head_val = 2
    /\ Len(written) = reader.n0 + 1
    /\ slurp_out(reader)[1] = written[reader.n0 + 1]
    /\ slurp_out(reader)[2] = written[4]
    /\ u32_lt(slurp_out(reader)[2].timestamp, slurp_out(reader)[1].timestamp)

\* When nothing is logged between the read of head and the end of the
\* copy, the reader has the ring as it is, oldest record first.
QuietCopyOrdered ==
    (reader.pc = "done" /\ Len(written) = reader.n0) =>
        /\ slurp_out(reader) = slurp(log)
        /\ TimeOrdered(slurp_out(reader))

QuietCopyWitness ==
    /\ reader.pc = "done"
    /\ reader.n0 = LOG_SIZE + 2
    /\ Len(written) = reader.n0
    /\ slurp_out(reader)[1] = written[3]
    /\ slurp_out(reader)[LOG_SIZE] = written[LOG_SIZE + 2]


====
